---- MODULE Spec2Model ----
(***************************************************************************)
(* orb8 node agent: kernel classifier -> ring -> poller -> flow aggregator, *)
(* with the pod cache kept by the Kubernetes pod watcher.                   *)
(*                                                                          *)
(* The specifications share the variables:                                  *)
(*   Spec        the event loop, the flow aggregator and the expirer run    *)
(*               as one step, without a Kubernetes API;                     *)
(*   SpecAttr    the event loop beside the pod watcher's handlers;          *)
(*   SpecWatcher the pod watcher's run loop against a changing cluster;     *)
(*   SpecProbe   the tc classifier and the ring it emits into;              *)
(*   SpecExpire  expire_old_flows step by step beside process_event;        *)
(*   SpecQuery   QueryFlows beside the event loop;                          *)
(*   SpecStream  StreamEvents: the broadcast channel and one subscriber.    *)
(* Rust's u64 counters are modelled as unbounded naturals: no run of the    *)
(* model comes near 2^64.                                                   *)
(***************************************************************************)
EXTENDS Integers, Sequences, FiniteSets, TLC

VARIABLES
    inner,             \* PodCache.inner: cgroup id -> PodMetadata
    by_ip,             \* PodCache pod-IP map: ip (u32) -> PodMetadata
    flows,             \* FlowAggregator.flows: FlowKey -> FlowStats
    events_processed,  \* FlowAggregator.events_processed
    events_dropped,    \* FlowAggregator.events_dropped
    now,               \* Instant::now(), in seconds since agent start
    folded,            \* history: FlowKey -> events folded into the live entry
    last,              \* history: how the last event-loop iteration ended
    cluster,           \* the pods the API server currently holds
    stream,            \* watch events in flight to the watcher
    wpc,               \* the watcher's position in PodWatcher::run
    backoff,           \* PodWatcher::run's backoff, in seconds
    wlast,             \* history: the watcher's last cache operation
    missed,            \* history: pods deleted while no watch was open
    ring,              \* EVENTS ring buffer: sequence of submitted records
    verdict,           \* history: what the classifier last returned
    epc,               \* the expiration task's position in expire_old_flows
    cutoff,            \* expire_old_flows: local `cutoff`
    before,            \* expire_old_flows: local `before`
    sweep,             \* history: the last sweep of expire_old_flows
    since,             \* history: process_event calls since the last sweep
    sent,              \* broadcast channel: every value send() stored, in order
    sub,               \* the StreamEvents subscriber: its receiver and history
    reply,             \* history: the last QueryFlows request and response
    slept,             \* history: the watcher's last sleep, 0 after a clean end
    lpc,               \* main: where the agent's main task stands
    rpc,               \* main: what became of the RPC server's listener
    batch,             \* main: the records `for event in events` has yet to see
    sig,               \* the interrupt signal and the listener ctrl_c() makes
    polled,            \* history: the last call of poll_events and the totals
    conv,              \* history: the last address string parsed and formatted
    uidx,              \* history: the last cgroup path built and the UID read back
    lookup,            \* history: the calls made on the pod cache and the last get
    procs              \* the concurrent callers of process_event and get_flows

vars == <<inner, by_ip, flows, events_processed, events_dropped, now, folded,
          last, cluster, stream, wpc, backoff, wlast, missed, ring, verdict,
          epc, cutoff, before, sweep, since, sent, sub, reply, slept,
          lpc, rpc, batch, sig, polled, conv, uidx, lookup,
          procs>>

cacheVars == <<inner, by_ip>>
expVars == <<epc, cutoff, before, sweep, since>>
rpcVars == <<sub, reply>>
aggVars == <<flows, events_processed, events_dropped, folded, last, expVars,
             sent, rpcVars>>
watchVars == <<cluster, stream, wpc, backoff, wlast, missed, slept>>
loopVars == <<lpc, rpc, batch, sig, polled>>
pureVars == <<conv, uidx, lookup, procs>>
probeVars == <<ring, verdict, loopVars, pureVars>>

----------------------------------------------------------------------------
(* Bounds of the model *)

MaxEvents == 3      \* events the loop body hands to process_event
MaxOps == 3         \* calls made on the pod cache by its callers
MaxNow == 40        \* the wall clock stops advancing here
MaxStream == 2      \* watch events in flight beyond the initial list
RingCap == 2        \* records the ring has room for

\* kernel timestamps; records of different CPUs arrive in any order
Timestamps == {1, 2}

----------------------------------------------------------------------------
(* Program constants *)

GRPC_PORT == 9090
FLOW_TIMEOUT_SECS == 30
EXPIRE_INTERVAL_SECS == 10
INGRESS == 0
EGRESS == 1
TCP == 6

\* 10.0.0.1 and 10.0.0.2 with the first octet in the least-significant byte
IpA == 10 + 1 * 16777216
IpB == 10 + 2 * 16777216

----------------------------------------------------------------------------
(* Option<T> is the empty set or a singleton *)

NoneOpt == {}

Some(x) == {x}

Unwrap(o) == CHOOSE x \in o : TRUE

----------------------------------------------------------------------------
(* Pod cache (orb8-agent/src/pod_cache.rs) *)

PodCache_get(cgroup_id) ==
    IF cgroup_id \in DOMAIN inner THEN Some(inner[cgroup_id]) ELSE NoneOpt

PodCache_get_by_ip(ip) ==
    IF ip \in DOMAIN by_ip THEN Some(by_ip[ip]) ELSE NoneOpt

\* a slip: an entry that is there is kept
PodCache_insert_if_absent(m, cgroup_id, metadata) ==
    [c \in DOMAIN m \cup {cgroup_id} |->
        IF c \in DOMAIN m THEN m[c] ELSE metadata]

PodCache_insert(m, cgroup_id, metadata) ==
    [c \in DOMAIN m \cup {cgroup_id} |->
        IF c = cgroup_id THEN metadata ELSE m[c]]

PodCache_insert_by_ip(m, metadata) ==
    LET ip == Unwrap(metadata.pod_ip)
    IN  [i \in DOMAIN m \cup {ip} |-> IF i = ip THEN metadata ELSE m[i]]

\* DashMap::retain(|_, v| v.pod_uid != pod_uid)
RetainOtherUid(m, pod_uid) ==
    [c \in {d \in DOMAIN m : m[d].pod_uid # pod_uid} |-> m[c]]

\* a slip: one entry of the pod is removed, as PodCache::remove would
PodCache_remove_pod_one(m, pod_uid) ==
    LET hit == {d \in DOMAIN m : m[d].pod_uid = pod_uid}
    IN  IF hit = {} THEN m
        ELSE [c \in DOMAIN m \ {CHOOSE d \in hit : TRUE} |-> m[c]]

\* a slip: the map is cleared
PodCache_remove_pod_clear(m, pod_uid) == [c \in {} |-> m[c]]

\* PodCache::remove_pod on the cgroup map
PodCache_remove_pod(m, pod_uid) == RetainOtherUid(m, pod_uid)

\* remove_by_pod_uid on the pod-IP map
PodCache_remove_pod_by_ip(m, pod_uid) == RetainOtherUid(m, pod_uid)

PodCache_len == Cardinality(DOMAIN inner)

\* PodCache::remove: the map without the key, and the value that was there
PodCache_remove(m, cgroup_id) ==
    [map |-> [c \in DOMAIN m \ {cgroup_id} |-> m[c]],
     old |-> IF cgroup_id \in DOMAIN m THEN Some(m[cgroup_id]) ELSE NoneOpt]

\* the cgroup ids and the metadata the cache's callers use
CacheKeys == {11, 12}

CacheMetas ==
    {[namespace |-> "a", pod_name |-> name, pod_uid |-> <<"a", "-", "1">>,
      container_name |-> "app", container_id |-> <<"containerd", "c1">>,
      pod_ip |-> NoneOpt] : name \in {"web", "db"}}

NoLookup == [ops |-> <<>>, asked |-> FALSE, key |-> 0, got |-> NoneOpt, at |-> 0]

\* a caller inserts metadata under a cgroup id
CacheInsert ==
    /\ Len(lookup.ops) < MaxOps
    /\ \E cgroup_id \in CacheKeys, metadata \in CacheMetas :
           /\ inner' = PodCache_insert(inner, cgroup_id, metadata)
           /\ lookup' = [lookup EXCEPT
                  !.ops = Append(@, [op |-> "insert", key |-> cgroup_id,
                                     meta |-> Some(metadata)])]
    /\ UNCHANGED <<by_ip, aggVars, watchVars, now, ring, verdict, loopVars,
                   conv, uidx, procs>>

\* a caller removes the entry of a cgroup id
CacheRemove ==
    /\ Len(lookup.ops) < MaxOps
    /\ \E cgroup_id \in CacheKeys :
           /\ inner' = PodCache_remove(inner, cgroup_id).map
           /\ lookup' = [lookup EXCEPT
                  !.ops = Append(@, [op |-> "remove", key |-> cgroup_id,
                                     meta |-> PodCache_remove(inner, cgroup_id).old])]
    /\ UNCHANGED <<by_ip, aggVars, watchVars, now, ring, verdict, loopVars,
                   conv, uidx, procs>>

\* a caller looks a cgroup id up
CacheGet ==
    /\ \E cgroup_id \in CacheKeys :
           lookup' = [lookup EXCEPT !.asked = TRUE, !.key = cgroup_id,
                                    !.got = PodCache_get(cgroup_id),
                                    !.at = Len(lookup.ops)]
    /\ UNCHANGED <<cacheVars, aggVars, watchVars, now, ring, verdict, loopVars,
                   conv, uidx, procs>>

NextCache ==
    \/ CacheInsert
    \/ CacheRemove
    \/ CacheGet

----------------------------------------------------------------------------
(* Flow aggregator (orb8-agent/src/aggregator.rs) *)

\* format!("cgroup-{}", event.cgroup_id)
CgroupName(cgroup_id) == "cgroup-" \o ToString(cgroup_id)

FlowStats_new(timestamp_ns, bytes) ==
    [bytes |-> bytes, packets |-> 1,
     first_seen |-> now, last_seen |-> now,
     first_seen_ns |-> timestamp_ns, last_seen_ns |-> timestamp_ns]

\* a slip: the byte counter is overwritten instead of added to
FlowStats_update_overwrite(stats, timestamp_ns, bytes) ==
    [stats EXCEPT !.bytes = bytes,
                  !.packets = @ + 1,
                  !.last_seen = now,
                  !.last_seen_ns = timestamp_ns]

FlowStats_update(stats, timestamp_ns, bytes) ==
    [stats EXCEPT !.bytes = @ + bytes,
                  !.packets = @ + 1,
                  !.last_seen = now,
                  !.last_seen_ns = timestamp_ns]

\* process_event's pod lookup: by cgroup id only
ResolvePod(event) ==
    LET meta == PodCache_get(event.cgroup_id)
    IN  IF meta # NoneOpt
        THEN <<Unwrap(meta).namespace, Unwrap(meta).pod_name>>
        ELSE <<"unknown", CgroupName(event.cgroup_id)>>

MakeFlowKey(event) ==
    LET np == ResolvePod(event)
    IN  [namespace |-> np[1], pod_name |-> np[2],
         src_ip |-> event.src_ip, dst_ip |-> event.dst_ip,
         src_port |-> event.src_port, dst_port |-> event.dst_port,
         protocol |-> event.protocol, direction |-> event.direction]

\* a slip: an entry that is there is left as it is
Upsert_insert_only(key, event) ==
    [k \in DOMAIN flows \cup {key} |->
        IF k \in DOMAIN flows THEN flows[k]
        ELSE FlowStats_new(event.timestamp_ns, event.packet_len)]

\* flows.entry(key).and_modify(update).or_insert_with(new)
Upsert(key, event) ==
    [k \in DOMAIN flows \cup {key} |->
        IF k # key THEN flows[k]
        ELSE IF key \in DOMAIN flows
             THEN FlowStats_update(flows[key], event.timestamp_ns, event.packet_len)
             ELSE FlowStats_new(event.timestamp_ns, event.packet_len)]

\* the events folded into each live flow entry, in arrival order
Fold(key, event) ==
    [k \in DOMAIN flows \cup {key} |->
        IF k # key THEN folded[k]
        ELSE IF key \in DOMAIN flows
             THEN Append(folded[key], event)
             ELSE <<event>>]

\* a slip: the namespace filter is not applied
get_flows_unfiltered(namespaces) == DOMAIN flows

\* get_flows(namespaces): an empty filter selects every flow
get_flows(namespaces) ==
    {k \in DOMAIN flows : namespaces = {} \/ k.namespace \in namespaces}

\* a slip: a flow last seen exactly at the cutoff is kept
Retained_inclusive(stats, cut) == stats.last_seen >= cut

\* the retain predicate of expire_old_flows: |_, stats| stats.last_seen > cutoff
Retained(stats, cut) == stats.last_seen > cut

----------------------------------------------------------------------------
(* Agent event loop (orb8-agent/src/main.rs) *)

\* a slip: only the source port is compared
IsSelfTraffic_src_only(event) == event.src_port = GRPC_PORT

\* the self-traffic filter at the head of the loop body
IsSelfTraffic(event) ==
    event.src_port = GRPC_PORT \/ event.dst_port = GRPC_PORT

NsPod(meta) == <<Unwrap(meta).namespace, Unwrap(meta).pod_name>>

\* IP-based pod enrichment of the broadcast event
Enrich(event) ==
    LET src_pod == PodCache_get_by_ip(event.src_ip)
        dst_pod == PodCache_get_by_ip(event.dst_ip)
    IN  IF event.direction = INGRESS
        THEN IF dst_pod # NoneOpt THEN NsPod(dst_pod)
             ELSE IF src_pod # NoneOpt THEN NsPod(src_pod)
             ELSE <<"external", "unknown">>
        ELSE IF src_pod # NoneOpt THEN NsPod(src_pod)
             ELSE IF dst_pod # NoneOpt THEN NsPod(dst_pod)
             ELSE <<"external", "unknown">>

\* records the ring hands to the loop body; the classifier writes cgroup id 0
Events ==
    [timestamp_ns : Timestamps,
     cgroup_id : {0},
     src_ip : {IpA}, dst_ip : {IpB},
     src_port : {80, GRPC_PORT}, dst_port : {5000, GRPC_PORT},
     protocol : {TCP},
     direction : {INGRESS, EGRESS},
     packet_len : {60, 100}]

\* a slip: the high byte is written first
format_ipv4_msb_first(ip) ==
    <<(ip \div 16777216) % 256, (ip \div 65536) % 256, (ip \div 256) % 256,
      ip % 256>>

\* format_ipv4: the four decimal parts of the dotted string, low byte first
format_ipv4(ip) ==
    <<ip % 256, (ip \div 256) % 256, (ip \div 65536) % 256,
      (ip \div 16777216) % 256>>

format_protocol(protocol) ==
    CASE protocol = 1 -> "ICMP"
      [] protocol = 6 -> "TCP"
      [] protocol = 17 -> "UDP"
      [] OTHER -> "OTHER"

format_direction(direction) ==
    CASE direction = 0 -> "ingress"
      [] direction = 1 -> "egress"
      [] OTHER -> "unknown"

\* the NetworkEvent the loop body builds for the stream subscribers
NetworkEventOf(event) ==
    LET np == Enrich(event)
    IN  [namespace |-> np[1], pod_name |-> np[2],
         src_ip |-> format_ipv4(event.src_ip),
         dst_ip |-> format_ipv4(event.dst_ip),
         src_port |-> event.src_port, dst_port |-> event.dst_port,
         protocol |-> format_protocol(event.protocol),
         direction |-> format_direction(event.direction),
         bytes |-> event.packet_len,
         timestamp_ns |-> event.timestamp_ns]

\* a slip: a value is refused while the slowest receiver has a full channel
\* to read, as a bounded queue would
broadcast_send_bounded(value) ==
    IF sub.open /\ Len(sent) - sub.next < MaxEvents - 2 THEN Append(sent, value)
    ELSE sent

\* event_tx.send(value): stored for the receivers, or an error, which the
\* loop ignores, when there is no receiver
broadcast_send(value) == IF sub.open THEN Append(sent, value) ELSE sent

\* one iteration of `for event in events`: filter, aggregate, broadcast
LoopBody(event) ==
    IF IsSelfTraffic(event)
    THEN /\ last' = "filtered"
         /\ UNCHANGED <<flows, events_processed, events_dropped, folded, sent>>
    ELSE /\ events_processed < MaxEvents
         /\ LET key == MakeFlowKey(event)
            IN  /\ events_processed' = events_processed + 1
                /\ flows' = Upsert(key, event)
                /\ folded' = Fold(key, event)
                /\ last' = "aggregated"
         /\ sent' = broadcast_send(NetworkEventOf(event))
         /\ UNCHANGED events_dropped

PollerStep ==
    /\ \E event \in Events : LoopBody(event)
    /\ UNCHANGED <<cacheVars, now, watchVars, probeVars, expVars, rpcVars>>

\* self.flows.retain(|_, stats| stats.last_seen > cutoff)
Retain(cut) == [k \in {f \in DOMAIN flows : Retained(flows[f], cut)} |-> flows[k]]

\* the expiration task: expire_old_flows, run without interruption
Expire ==
    /\ flows' = Retain(now - FLOW_TIMEOUT_SECS)
    /\ folded' = [k \in DOMAIN flows' |-> folded[k]]
    /\ UNCHANGED <<events_processed, events_dropped, last, cacheVars, now,
                   expVars, sent, rpcVars, watchVars, probeVars>>

\* time passes
Tick ==
    /\ now + EXPIRE_INTERVAL_SECS <= MaxNow
    /\ now' = now + EXPIRE_INTERVAL_SECS
    /\ UNCHANGED <<aggVars, cacheVars, watchVars, probeVars>>

----------------------------------------------------------------------------
(* expire_old_flows step by step: the expiration task runs beside the event *)
(* loop, so process_event can run between any two of its three map calls.   *)
(* DashMap::retain is taken as one step.                                     *)

NoSweep ==
    [at |-> 0, same_clock |-> FALSE, removed |-> 0,
     idle_removed |-> {}, idle_kept |-> {},
     ret |-> [tag |-> "none", n |-> 0], quiet |-> FALSE]

\* let cutoff = Instant::now() - self.flow_timeout; let before = self.flows.len()
ExpireBegin ==
    /\ epc = "sleep"
    /\ epc' = "counted"
    /\ cutoff' = now - FLOW_TIMEOUT_SECS
    /\ before' = Cardinality(DOMAIN flows)
    /\ UNCHANGED <<flows, events_processed, events_dropped, folded, last,
                   sweep, since, sent, rpcVars, cacheVars, now, watchVars,
                   probeVars>>

\* self.flows.retain(...); the history notes how idle each flow was
ExpireRetain ==
    /\ epc = "counted"
    /\ epc' = "retained"
    /\ flows' = Retain(cutoff)
    /\ folded' = [k \in DOMAIN flows' |-> folded[k]]
    /\ LET at == cutoff + FLOW_TIMEOUT_SECS
           gone == DOMAIN flows \ DOMAIN flows'
       IN  sweep' = [at |-> at,
                     same_clock |-> sweep.ret.tag = "ok" /\ sweep.at = at,
                     removed |-> Cardinality(gone),
                     idle_removed |-> {at - flows[k].last_seen : k \in gone},
                     idle_kept |-> {at - flows[k].last_seen : k \in DOMAIN flows'},
                     ret |-> [tag |-> "pending", n |-> 0],
                     quiet |-> FALSE]
    /\ UNCHANGED <<events_processed, events_dropped, last, cutoff, before,
                   since, sent, rpcVars, cacheVars, now, watchVars, probeVars>>

\* a slip: the size before the sweep is returned
SweepReturns_before(b, after) == {[tag |-> "ok", n |-> b]}

\* before - self.flows.len(): usize subtraction, which panics on underflow
\* with overflow checks and wraps to 2^64 - n without them
SweepReturns(b, after) ==
    IF b >= after
    THEN {[tag |-> "ok", n |-> b - after]}
    ELSE {[tag |-> "wrapped", n |-> after - b], [tag |-> "panic", n |-> 0]}

\* the sweep returns, or its task dies of the panic
ExpireEnd ==
    /\ epc = "retained"
    /\ \E r \in SweepReturns(before, Cardinality(DOMAIN flows)) :
          /\ epc' = IF r.tag = "panic" THEN "panicked" ELSE "sleep"
          /\ sweep' = [sweep EXCEPT !.ret = r, !.quiet = since = "quiet"]
    /\ since' = "quiet"
    /\ UNCHANGED <<flows, events_processed, events_dropped, folded, last,
                   cutoff, before, sent, rpcVars, cacheVars, now, watchVars,
                   probeVars>>

\* the records the event loop aggregates beside the expirer: two flow keys
SweepEvents ==
    {event \in Events :
        /\ ~IsSelfTraffic(event)
        /\ event.timestamp_ns = 1
        /\ event.packet_len = 60}

\* the event loop's process_event call, beside the expiration task
SweepPollerStep ==
    /\ \E event \in SweepEvents : LoopBody(event)
    /\ since' = "disturbed"
    /\ UNCHANGED <<epc, cutoff, before, sweep, rpcVars, cacheVars, now,
                   watchVars, probeVars>>

NextExpire ==
    \/ SweepPollerStep
    \/ Tick
    \/ ExpireBegin
    \/ ExpireRetain
    \/ ExpireEnd

----------------------------------------------------------------------------
(* Concurrent callers of the aggregator (orb8-agent/src/aggregator.rs) *)

\* the threads that call process_event
Callers == {1, 2}

\* events of one flow, of two lengths
FlowEvents ==
    {event \in Events : /\ event.timestamp_ns = 1 /\ event.direction = INGRESS
                        /\ event.src_port = 80 /\ event.dst_port = 5000}

NoCallers ==
    [pc |-> [t \in Callers |-> "idle"],
     event |-> [t \in Callers |-> CHOOSE event \in FlowEvents : TRUE],
     key |-> [t \in Callers |-> NoneOpt],
     calls |-> 0, sum |-> 0, done |-> 0, overlap |-> FALSE,
     snap |-> NoneOpt]

\* process_event, first statement: events_processed.fetch_add(1, Relaxed)
ProcessCount(t) ==
    /\ procs.pc[t] = "idle"
    /\ procs.calls < MaxEvents
    /\ \E event \in FlowEvents :
           procs' = [procs EXCEPT !.pc[t] = "lookup", !.event[t] = event,
                                  !.calls = @ + 1,
                                  !.sum = @ + event.packet_len,
                                  !.overlap = @ \/ \E u \in Callers \ {t} :
                                                      procs.pc[u] = "entry"]
    /\ events_processed' = events_processed + 1
    /\ UNCHANGED <<flows, events_dropped, folded, last, expVars, sent, rpcVars,
                   cacheVars, watchVars, now, ring, verdict, loopVars, conv,
                   uidx, lookup>>

\* process_event: pod_cache.get and the FlowKey
ProcessLookup(t) ==
    /\ procs.pc[t] = "lookup"
    /\ procs' = [procs EXCEPT !.pc[t] = "entry",
                              !.key[t] = Some(MakeFlowKey(procs.event[t]))]
    /\ UNCHANGED <<aggVars, cacheVars, watchVars, now, ring, verdict, loopVars,
                   conv, uidx, lookup>>

\* process_event: flows.entry(key).and_modify(..).or_insert_with(..), which
\* holds the write lock of the key's shard from entry() to the end
ProcessEntry(t) ==
    /\ procs.pc[t] = "entry"
    /\ flows' = Upsert(Unwrap(procs.key[t]), procs.event[t])
    /\ folded' = Fold(Unwrap(procs.key[t]), procs.event[t])
    /\ last' = "aggregated"
    /\ procs' = [procs EXCEPT !.pc[t] = "idle", !.key[t] = NoneOpt,
                              !.done = @ + 1]
    /\ UNCHANGED <<events_processed, events_dropped, expVars, sent, rpcVars,
                   cacheVars, watchVars, now, ring, verdict, loopVars, conv,
                   uidx, lookup>>

\* get_flows(&[]) of an RPC handler: the entries are cloned under the read
\* lock of their shard
SnapshotRead ==
    /\ procs' = [procs EXCEPT
           !.snap = Some([flows |-> [k \in get_flows({}) |-> flows[k]],
                          done |-> procs.done])]
    /\ UNCHANGED <<aggVars, cacheVars, watchVars, now, ring, verdict, loopVars,
                   conv, uidx, lookup>>

NextConc ==
    \/ \E t \in Callers : ProcessCount(t)
    \/ \E t \in Callers : ProcessLookup(t)
    \/ \E t \in Callers : ProcessEntry(t)
    \/ SnapshotRead

----------------------------------------------------------------------------
(* Cgroup resolver (orb8-agent/src/cgroup.rs) *)

QOS_CLASSES == <<"", "burstable-", "besteffort-">>

\* str::replace on a string held as a sequence of characters
Replace(str, from, to) ==
    [i \in 1..Len(str) |-> IF str[i] = from THEN to ELSE str[i]]

\* the container scopes present under kubepods.slice, with their inodes
CgroupFs ==
    {[qos |-> "burstable-", pod |-> <<"a", "_", "1">>, scope |-> "c1", ino |-> 11],
     [qos |-> "burstable-", pod |-> <<"a", "_", "1">>, scope |-> "c2", ino |-> 12],
     [qos |-> "", pod |-> <<"c", "_", "3">>, scope |-> "c3", ino |-> 13]}

try_containerd_path(pod_uid, container_id, qos) ==
    LET hit == {d \in CgroupFs :
                   d.qos = qos /\ d.pod = pod_uid /\ d.scope = container_id}
    IN  IF hit = {} THEN NoneOpt ELSE Some((CHOOSE d \in hit : TRUE).ino)

RECURSIVE TryQos(_, _, _)
TryQos(normalized_uid, clean_container_id, i) ==
    IF i > Len(QOS_CLASSES) THEN NoneOpt
    ELSE LET inode == try_containerd_path(normalized_uid, clean_container_id,
                                          QOS_CLASSES[i])
         IN  IF inode # NoneOpt THEN inode
             ELSE TryQos(normalized_uid, clean_container_id, i + 1)

\* CgroupResolver::resolve; a container id is held as its "://"-separated parts
resolve(pod_uid, container_id) ==
    LET normalized_uid == Replace(pod_uid, "-", "_")
        clean_container_id == container_id[Len(container_id)]
    IN  TryQos(normalized_uid, clean_container_id, 1)


\* the pieces of text the paths are made of
CGROUP_ROOT == <<<<"s", "y", "s">>, <<"f", "s">>, <<"c", "g", "r", "o", "u", "p">>>>

KUBEPODS_SLICE == <<"k", "u", "b", "e", "p", "o", "d", "s", ".", "s", "l", "i", "c", "e">>

KUBEPODS_DASH == <<"k", "u", "b", "e", "p", "o", "d", "s", "-">>

BURSTABLE == <<"b", "u", "r", "s", "t", "a", "b", "l", "e", "-">>

BESTEFFORT == <<"b", "e", "s", "t", "e", "f", "f", "o", "r", "t", "-">>

POD == <<"p", "o", "d">>

DASH_POD == <<"-", "p", "o", "d">>

DOT_SLICE == <<".", "s", "l", "i", "c", "e">>

DOT_SCOPE == <<".", "s", "c", "o", "p", "e">>

CRI_CONTAINERD == <<"c", "r", "i", "-", "c", "o", "n", "t", "a", "i", "n", "e", "r", "d", "-">>

UID_12345 == <<"1", "2", "3", "4", "5">>

UID_12345_6789 == <<"1", "2", "3", "4", "5", "-", "6", "7", "8", "9">>

\* Cgroup paths as text: a path is the sequence of its components, a
\* component the sequence of its characters

QosText(qos) ==
    CASE qos = "" -> <<>>
      [] qos = "burstable-" -> BURSTABLE
      [] qos = "besteffort-" -> BESTEFFORT

\* qos.trim_end_matches('-')
RECURSIVE trim_end_dashes(_)
trim_end_dashes(str) ==
    IF str # <<>> /\ str[Len(str)] = "-"
    THEN trim_end_dashes(SubSeq(str, 1, Len(str) - 1)) ELSE str

\* the path try_containerd_path joins: the cgroup root, kubepods.slice, the
\* components of pod_slice and the container scope
containerd_path(pod_uid, container_id, qos) ==
    LET q == QosText(qos)
        pod_dir == KUBEPODS_DASH \o q \o POD \o pod_uid \o DOT_SLICE
        pod_slice == IF q = <<>> THEN <<pod_dir>>
                     ELSE <<KUBEPODS_DASH \o trim_end_dashes(q) \o DOT_SLICE,
                            pod_dir>>
    IN  CGROUP_ROOT \o <<KUBEPODS_SLICE>> \o pod_slice
            \o <<CRI_CONTAINERD \o container_id \o DOT_SCOPE>>

\* name.ends_with(suffix)
ends_with(name, suffix) ==
    /\ Len(name) >= Len(suffix)
    /\ SubSeq(name, Len(name) - Len(suffix) + 1, Len(name)) = suffix

\* the places of name where pat stands
Occurrences(name, pat) ==
    {i \in 1..(Len(name) - Len(pat) + 1) :
        SubSeq(name, i, i + Len(pat) - 1) = pat}

\* name.find(pat): the first place, counted from 0, or none
find(name, pat) ==
    IF Occurrences(name, pat) = {} THEN NoneOpt
    ELSE Some((CHOOSE i \in Occurrences(name, pat) :
                  \A j \in Occurrences(name, pat) : i <= j) - 1)

\* a slip: only "pod" is skipped, the dash is not
uid_start_pod(start) == start + 3

\* let uid_start = start + 4
uid_start(start) == start + 4

\* the body of the loop of extract_pod_uid_from_path for one ancestor
extract_from_name(name) ==
    IF find(name, DASH_POD) # NoneOpt /\ ends_with(name, DOT_SLICE)
    THEN LET from == uid_start(Unwrap(find(name, DASH_POD)))
         IN  IF from > Len(name) THEN NoneOpt
             ELSE LET uid_part == SubSeq(name, from + 1, Len(name))
                  IN  IF ends_with(uid_part, DOT_SLICE)
                      THEN Some(Replace(SubSeq(uid_part, 1,
                                               Len(uid_part) - Len(DOT_SLICE)),
                                        "_", "-"))
                      ELSE NoneOpt
    ELSE NoneOpt

\* extract_pod_uid_from_path: path.ancestors() from the path itself upwards,
\* the first ancestor whose name gives a UID
RECURSIVE extract_pod_uid_from_path(_)
extract_pod_uid_from_path(path) ==
    IF path = <<>> THEN NoneOpt
    ELSE IF extract_from_name(path[Len(path)]) # NoneOpt
         THEN extract_from_name(path[Len(path)])
    ELSE extract_pod_uid_from_path(SubSeq(path, 1, Len(path) - 1))

\* pod UIDs the resolver is handed: short ones over digits, dashes and
\* underscores, and the two of the tests
PodUids ==
    UNION {[1..n -> {"1", "2", "-", "_"}] : n \in 0..3}
        \cup {UID_12345, UID_12345_6789}

NoExtract == [uid |-> <<>>, qos |-> "none", path |-> <<>>, out |-> NoneOpt,
              done |-> FALSE]

\* resolve builds the path of a pod's container for one QoS class
BuildPath ==
    /\ uidx = NoExtract
    /\ \E pod_uid \in PodUids, i \in 1..Len(QOS_CLASSES) :
           uidx' = [uid |-> pod_uid, qos |-> QOS_CLASSES[i],
                    path |-> containerd_path(Replace(pod_uid, "-", "_"),
                                             <<"c", "1">>, QOS_CLASSES[i]),
                    out |-> NoneOpt, done |-> FALSE]
    /\ UNCHANGED <<aggVars, cacheVars, watchVars, now, ring, verdict, loopVars,
                   conv, lookup, procs>>

\* scan_directory reads the pod UID back from the path
ExtractUid ==
    /\ uidx.path # <<>>
    /\ ~uidx.done
    /\ uidx' = [uidx EXCEPT !.out = extract_pod_uid_from_path(uidx.path),
                            !.done = TRUE]
    /\ UNCHANGED <<aggVars, cacheVars, watchVars, now, ring, verdict, loopVars,
                   conv, lookup, procs>>

NextCgroup ==
    \/ BuildPath
    \/ ExtractUid

----------------------------------------------------------------------------
(* Pod watcher handlers (orb8-agent/src/k8s_watcher.rs) *)

\* filter_map(|p| p.parse::<u8>().ok()): a part is held as the number it
\* spells, or -1 when it spells none
RECURSIVE ParsedOctets(_)
ParsedOctets(parts) ==
    IF parts = <<>> THEN <<>>
    ELSE LET rest == ParsedOctets(Tail(parts))
         IN  IF Head(parts) >= 0 /\ Head(parts) <= 255
             THEN <<Head(parts)>> \o rest ELSE rest

\* a slip: the second and the third byte change places
parse_ipv4_swapped(ip_str) ==
    LET parts == ParsedOctets(ip_str)
    IN  IF Len(parts) = 4
        THEN Some(parts[1] + 256 * parts[3] + 65536 * parts[2]
                  + 16777216 * parts[4])
        ELSE NoneOpt

\* parse_ipv4 of a string held as its "."-separated parts
parse_ipv4(ip_str) ==
    LET parts == ParsedOctets(ip_str)
    IN  IF Len(parts) = 4
        THEN Some(parts[1] + 256 * parts[2] + 65536 * parts[3]
                  + 16777216 * parts[4])
        ELSE NoneOpt

\* Address strings as text: a string is the sequence of its "."-separated
\* parts, as split('.') yields them, and a part the sequence of its characters

Digits == <<"0", "1", "2", "3", "4", "5", "6", "7", "8", "9">>

IsDigit(c) == \E i \in 1..Len(Digits) : Digits[i] = c

DigitValue(c) == (CHOOSE i \in 1..Len(Digits) : Digits[i] = c) - 1

\* the number a sequence of digits spells
RECURSIVE Spelled(_)
Spelled(ds) ==
    IF ds = <<>> THEN 0
    ELSE 10 * Spelled(SubSeq(ds, 1, Len(ds) - 1)) + DigitValue(ds[Len(ds)])

\* p.parse::<u8>(): an optional "+", then digits that spell at most 255; the
\* number, or -1 for an Err
parse_u8(p) ==
    LET ds == IF Len(p) > 1 /\ p[1] = "+" THEN Tail(p) ELSE p
    IN  IF p = <<>> \/ (\E i \in 1..Len(ds) : ~IsDigit(ds[i])) THEN -1
        ELSE IF Spelled(ds) > 255 THEN -1
        ELSE Spelled(ds)

\* ip_str.split('.') with each part through parse::<u8>() and on to parse_ipv4
parse_ipv4_text(ip_str) ==
    parse_ipv4([i \in 1..Len(ip_str) |-> parse_u8(ip_str[i])])

\* "{}" of an unsigned number: its decimal digits, no sign, no leading zero
RECURSIVE Display(_)
Display(n) ==
    IF n < 10 THEN <<Digits[n + 1]>>
    ELSE Display(n \div 10) \o <<Digits[(n % 10) + 1]>>

\* format!("{}.{}.{}.{}", ..) of format_ipv4, as the parts of the string
format_ipv4_text(ip) == [i \in 1..4 |-> Display(format_ipv4(ip)[i])]

\* parts that spell a number below 128, above it, in an unusual way, or none
PartsLow == {<<"0">>, <<"1">>, <<"5">>, <<"1", "0">>, <<"1", "0", "0">>,
             <<"1", "2", "7">>}

PartsHigh == {<<"1", "6", "8">>, <<"1", "9", "2">>, <<"2", "5", "5">>}

PartsOdd == {<<"0", "5">>, <<"+", "5">>}

PartsBad == {<<>>, <<"2", "5", "6">>, <<"a">>, <<"-", "1">>}

\* the strings handed to parse_ipv4: of four parts, and of one to five parts
IpStrings ==
    {<<a, b, c, d>> : a \in PartsLow \cup PartsHigh \cup PartsOdd \cup PartsBad,
                      b \in PartsLow \cup PartsHigh \cup PartsBad,
                      c \in PartsLow \cup PartsBad,
                      d \in PartsLow \cup PartsOdd \cup PartsBad}
        \cup UNION {[1..n -> {<<"1">>, <<"5">>, <<"a">>, <<>>}] : n \in {1, 2, 3, 5}}

NoConv == [s |-> <<>>, parsed |-> NoneOpt, text |-> NoneOpt]

\* parse_ipv4 is applied to a string
ParseIp ==
    /\ conv = NoConv
    /\ \E ip_str \in IpStrings :
           conv' = [s |-> ip_str, parsed |-> parse_ipv4_text(ip_str),
                    text |-> NoneOpt]
    /\ UNCHANGED <<aggVars, cacheVars, watchVars, now, ring, verdict, loopVars,
                   uidx, lookup, procs>>

\* format_ipv4 is applied to the address parse_ipv4 returned
FormatIp ==
    /\ conv.parsed # NoneOpt
    /\ conv.text = NoneOpt
    /\ conv' = [conv EXCEPT !.text = Some(format_ipv4_text(Unwrap(conv.parsed)))]
    /\ UNCHANGED <<aggVars, cacheVars, watchVars, now, ring, verdict, loopVars,
                   uidx, lookup, procs>>

NextIp ==
    \/ ParseIp
    \/ FormatIp

U1 == <<"a", "-", "1">>
U2 == <<"b", "-", "2">>
U3 == <<"c", "-", "3">>

\* the pod objects the API server can hold
PodObjs ==
    {[uid |-> U1, namespace |-> "a", name |-> "web",
      status |-> Some([pod_ip |-> Some(<<10, 0, 0, 1>>),
                       container_statuses |->
                           <<[name |-> "app",
                              container_id |-> Some(<<"containerd", "c1">>)],
                             [name |-> "sidecar",
                              container_id |-> Some(<<"containerd", "c2">>)]>>])],
     [uid |-> U2, namespace |-> "b", name |-> "db",
      status |-> Some([pod_ip |-> Some(<<10, 0, 0, 2>>),
                       container_statuses |->
                           <<[name |-> "db", container_id |-> NoneOpt]>>])],
     [uid |-> U3, namespace |-> "a", name |-> "job",
      status |-> Some([pod_ip |-> Some(<<10, 0, 0, 1>>),
                       container_statuses |->
                           <<[name |-> "init",
                              container_id |-> Some(<<"containerd", "c9">>)],
                             [name |-> "run",
                              container_id |-> Some(<<"containerd", "c3">>)]>>])]}

PodIp(pod) ==
    LET status == Unwrap(pod.status)
    IN  IF status.pod_ip = NoneOpt THEN NoneOpt
        ELSE parse_ipv4(Unwrap(status.pod_ip))

\* a slip: the pod-IP insert waits for a container that has an id
ApplyByIp_with_container(m, pod) ==
    IF pod.uid = <<>> \/ pod.status = NoneOpt THEN m
    ELSE IF PodIp(pod) = NoneOpt THEN m
    ELSE IF \A i \in 1..Len(Unwrap(pod.status).container_statuses) :
                Unwrap(pod.status).container_statuses[i].container_id = NoneOpt
         THEN m
    ELSE PodCache_insert_by_ip(m,
            [namespace |-> pod.namespace, pod_name |-> pod.name,
             pod_uid |-> pod.uid, container_name |-> "",
             container_id |-> <<>>, pod_ip |-> PodIp(pod)])

\* handle_pod_apply: the pod-IP insert
ApplyByIp(m, pod) ==
    IF pod.uid = <<>> \/ pod.status = NoneOpt THEN m
    ELSE IF PodIp(pod) = NoneOpt THEN m
    ELSE PodCache_insert_by_ip(m,
            [namespace |-> pod.namespace, pod_name |-> pod.name,
             pod_uid |-> pod.uid, container_name |-> "",
             container_id |-> <<>>, pod_ip |-> PodIp(pod)])

\* handle_pod_apply: the loop over container_statuses
RECURSIVE ApplyContainers(_, _, _)
ApplyContainers(m, pod, css) ==
    IF css = <<>> THEN m
    ELSE LET cs == Head(css)
             cgroup_id == IF cs.container_id = NoneOpt THEN NoneOpt
                          ELSE resolve(pod.uid, Unwrap(cs.container_id))
             m1 == IF cgroup_id = NoneOpt THEN m
                   ELSE PodCache_insert(m, Unwrap(cgroup_id),
                           [namespace |-> pod.namespace, pod_name |-> pod.name,
                            pod_uid |-> pod.uid, container_name |-> cs.name,
                            container_id |-> Unwrap(cs.container_id),
                            pod_ip |-> PodIp(pod)])
         IN  ApplyContainers(m1, pod, Tail(css))

ApplyInner(m, pod) ==
    IF pod.uid = <<>> \/ pod.status = NoneOpt THEN m
    ELSE ApplyContainers(m, pod, Unwrap(pod.status).container_statuses)

handle_pod_apply(pod) ==
    /\ by_ip' = ApplyByIp(by_ip, pod)
    /\ inner' = ApplyInner(inner, pod)

handle_pod_delete(pod) ==
    IF pod.uid # <<>>
    THEN /\ inner' = PodCache_remove_pod(inner, pod.uid)
         /\ by_ip' = PodCache_remove_pod_by_ip(by_ip, pod.uid)
    ELSE UNCHANGED <<inner, by_ip>>

NoOp == [op |-> "none"]

\* the watcher takes Apply(pod) or InitApply(pod) from its stream
WatchApply(pod) ==
    /\ handle_pod_apply(pod)
    /\ wlast' = [op |-> "apply", uid |-> pod.uid]
    /\ UNCHANGED <<cluster, stream, wpc, backoff, missed>>
    /\ UNCHANGED <<aggVars, now, probeVars, slept>>

\* the watcher takes Delete(pod) from its stream
WatchDelete(pod) ==
    /\ handle_pod_delete(pod)
    /\ wlast' = [op |-> "delete", uid |-> pod.uid,
                 pre_inner |-> inner, pre_by_ip |-> by_ip]
    /\ UNCHANGED <<cluster, stream, wpc, backoff, missed>>
    /\ UNCHANGED <<aggVars, now, probeVars, slept>>

\* pods as the API server can hand them to handle_pod_apply: those of the
\* cluster, one whose address is an IPv6 one (no dotted quad), one without
\* an address, one whose container is not found under the cgroup root, one
\* without status and one without a UID
ApplyPods ==
    PodObjs \cup
    {[uid |-> U2, namespace |-> "b", name |-> "six",
      status |-> Some([pod_ip |-> Some(<<-1>>),
                       container_statuses |->
                           <<[name |-> "db", container_id |-> NoneOpt]>>])],
     [uid |-> U2, namespace |-> "b", name |-> "pending",
      status |-> Some([pod_ip |-> NoneOpt,
                       container_statuses |-> <<>>])],
     [uid |-> U2, namespace |-> "b", name |-> "lost",
      status |-> Some([pod_ip |-> Some(<<10, 0, 0, 2>>),
                       container_statuses |->
                           <<[name |-> "db",
                              container_id |-> Some(<<"containerd", "c7">>)]>>])],
     [uid |-> U2, namespace |-> "b", name |-> "new", status |-> NoneOpt],
     [uid |-> <<>>, namespace |-> "b", name |-> "anon",
      status |-> Some([pod_ip |-> Some(<<10, 0, 0, 2>>),
                       container_statuses |->
                           <<[name |-> "app",
                              container_id |-> Some(<<"containerd", "c1">>)]>>])]}

\* Apply(pod) or InitApply(pod) of any such pod
ApplyPod ==
    \E pod \in ApplyPods :
        /\ handle_pod_apply(pod)
        /\ wlast' = [op |-> "apply", uid |-> pod.uid, pod |-> pod,
                     pre_inner |-> inner, pre_by_ip |-> by_ip]
        /\ UNCHANGED <<cluster, stream, wpc, backoff, missed>>
        /\ UNCHANGED <<aggVars, now, probeVars, slept>>

\* Delete(pod) of any such pod
DeletePod ==
    \E pod \in ApplyPods : WatchDelete(pod)

NextApply ==
    \/ ApplyPod
    \/ DeletePod

\* process_event inputs for pod attribution: cgroup 11 is the "app" container
AttrEvents ==
    [timestamp_ns : {1},
     cgroup_id : {0, 11},
     src_ip : {IpA}, dst_ip : {IpB},
     src_port : {80, GRPC_PORT}, dst_port : {5000},
     protocol : {TCP},
     direction : {INGRESS, EGRESS},
     packet_len : {100}]

AttrStep ==
    /\ \E event \in AttrEvents : LoopBody(event)
    /\ UNCHANGED <<cacheVars, now, watchVars, probeVars, expVars, rpcVars>>

----------------------------------------------------------------------------
(* Pod watcher run loop (orb8-agent/src/k8s_watcher.rs) against a cluster *)

MAX_BACKOFF_SECS == 30

Min2(a, b) == IF a < b THEN a ELSE b

\* every order in which the pods of S can be listed
Orders(S) ==
    {q \in [1..Cardinality(S) -> S] : \A i, j \in 1..Cardinality(S) :
                                          i # j => q[i] # q[j]}

Uids(S) == {pod.uid : pod \in S}

\* the API server creates a pod; a connected watch is sent Apply
ClusterCreate(pod) ==
    /\ pod.uid \notin Uids(cluster.live) \cup cluster.gone
    /\ cluster' = [cluster EXCEPT !.live = @ \cup {pod}]
    /\ IF wpc = "watching"
       THEN /\ Len(stream) < MaxStream
            /\ stream' = Append(stream, [type |-> "Apply", pod |-> pod])
       ELSE UNCHANGED stream
    /\ UNCHANGED <<missed, wpc, backoff, wlast, cacheVars>>
    /\ UNCHANGED <<aggVars, now, probeVars, slept>>

\* the API server deletes a pod; a connected watch is sent Delete
ClusterDelete(pod) ==
    /\ pod \in cluster.live
    /\ cluster' = [live |-> cluster.live \ {pod},
                   gone |-> cluster.gone \cup {pod.uid}]
    /\ IF wpc = "watching"
       THEN /\ Len(stream) < MaxStream
            /\ stream' = Append(stream, [type |-> "Delete", pod |-> pod])
            /\ UNCHANGED missed
       ELSE /\ missed' = missed \cup {pod.uid}
            /\ UNCHANGED stream
    /\ UNCHANGED <<wpc, backoff, wlast, cacheVars>>
    /\ UNCHANGED <<aggVars, now, probeVars, slept>>

\* run calls watch_pods: the new stream opens with the current pod list
WatchStart ==
    /\ wpc = "start"
    /\ \E q \in Orders(cluster.live) :
          stream' = <<[type |-> "Init"]>>
                    \o [i \in 1..Len(q) |-> [type |-> "InitApply", pod |-> q[i]]]
                    \o <<[type |-> "InitDone"]>>
    /\ wpc' = "watching"
    /\ UNCHANGED <<cluster, missed, backoff, wlast, cacheVars>>
    /\ UNCHANGED <<aggVars, now, probeVars, slept>>

\* one iteration of watch_pods' `while let Some(event)`
WatchHandle ==
    /\ wpc = "watching"
    /\ stream # <<>>
    /\ LET event == Head(stream)
       IN  CASE event.type \in {"Apply", "InitApply"} ->
                  /\ handle_pod_apply(event.pod)
                  /\ wlast' = [op |-> "apply", uid |-> event.pod.uid]
             [] event.type = "Delete" ->
                  /\ handle_pod_delete(event.pod)
                  /\ wlast' = [op |-> "delete", uid |-> event.pod.uid,
                               pre_inner |-> inner, pre_by_ip |-> by_ip]
             [] OTHER ->
                  /\ UNCHANGED cacheVars
                  /\ wlast' = [op |-> event.type]
    /\ stream' = Tail(stream)
    /\ UNCHANGED <<cluster, missed, wpc, backoff>>
    /\ UNCHANGED <<aggVars, now, probeVars, slept>>

\* try_next fails: watch_pods returns Err and run sleeps for `backoff`
WatchError ==
    /\ wpc = "watching"
    /\ wpc' = "sleeping"
    /\ stream' = <<>>
    /\ UNCHANGED <<cluster, missed, backoff, wlast, cacheVars>>
    /\ UNCHANGED <<aggVars, now, probeVars, slept>>

\* a slip: after a clean end the next watch starts at once
WatchEnd_skip_resync ==
    /\ wpc = "watching"
    /\ wpc' = "start"
    /\ backoff' = 1
    /\ slept' = 0
    /\ stream' = <<>>
    /\ UNCHANGED <<cluster, missed, wlast, cacheVars>>
    /\ UNCHANGED <<aggVars, now, probeVars>>

\* try_next returns None: watch_pods returns Ok and run resets the backoff
WatchEnd ==
    /\ wpc = "watching"
    /\ wpc' = "resync"
    /\ backoff' = 1
    /\ slept' = 0
    /\ stream' = <<>>
    /\ UNCHANGED <<cluster, missed, wlast, cacheVars>>
    /\ UNCHANGED <<aggVars, now, probeVars>>

\* a slip: the cap is applied before the doubling
NextBackoff_cap_first(b) == Min2(b, MAX_BACKOFF_SECS) * 2

\* std::cmp::min(backoff * 2, max_backoff)
NextBackoff(b) == Min2(b * 2, MAX_BACKOFF_SECS)

\* tokio::time::sleep(backoff) is over: the backoff doubles up to its cap
SleepDone ==
    /\ wpc = "sleeping"
    /\ slept' = backoff
    /\ backoff' = NextBackoff(backoff)
    /\ wpc' = "resync"
    /\ UNCHANGED <<cluster, stream, missed, wlast, cacheVars>>
    /\ UNCHANGED <<aggVars, now, probeVars>>

RECURSIVE ApplyAllByIp(_, _)
ApplyAllByIp(m, pod_list) ==
    IF pod_list = <<>> THEN m
    ELSE ApplyAllByIp(ApplyByIp(m, Head(pod_list)), Tail(pod_list))

RECURSIVE ApplyAllInner(_, _)
ApplyAllInner(m, pod_list) ==
    IF pod_list = <<>> THEN m
    ELSE ApplyAllInner(ApplyInner(m, Head(pod_list)), Tail(pod_list))

\* resync_all: list every pod and apply each; a failed list is only logged
Resync ==
    /\ wpc = "resync"
    /\ \/ \E pod_list \in Orders(cluster.live) :
             /\ by_ip' = ApplyAllByIp(by_ip, pod_list)
             /\ inner' = ApplyAllInner(inner, pod_list)
             /\ wlast' = [op |-> "resync", list |-> cluster.live,
                          missed |-> missed]
       \/ /\ UNCHANGED cacheVars
          /\ wlast' = [op |-> "resync_failed"]
    /\ missed' = {}
    /\ wpc' = "start"
    /\ UNCHANGED <<cluster, stream, backoff>>
    /\ UNCHANGED <<aggVars, now, probeVars, slept>>

NextWatcher ==
    \/ \E pod \in PodObjs : ClusterCreate(pod)
    \/ \E pod \in PodObjs : ClusterDelete(pod)
    \/ WatchStart
    \/ WatchHandle
    \/ WatchError
    \/ WatchEnd
    \/ SleepDone
    \/ Resync

----------------------------------------------------------------------------
(* Kernel classifier (orb8-probes/src/network_probe.rs) and the ring *)

TC_ACT_OK == 0
ETH_HLEN == 14
ETH_P_IP == 2048
IP_HLEN_MIN == 20
ICMP == 1
UDP == 17
EVENT_SIZE == 32
MAX_BATCH_SIZE == 1024

\* packets handed to the classifier (EtherType 34525 is IPv6): `len` is the wire length, `data_end` the
\* bytes between ctx.data() and ctx.data_end() (a short packet is taken to be
\* linear); the header fields are what the bytes spell where they can be read
Packets ==
    {pkt \in [len : {33, 60, 65549},
              data_end : {13, 14, 20, 24, 33, 34, 36, 60},
              ethertype : {ETH_P_IP, 34525},
              version_ihl : {68, 69},
              proto : {ICMP, TCP, UDP},
              src_ip : {IpA}, dst_ip : {IpB},
              sport : {80}, dport : {5000}] :
        /\ pkt.data_end <= pkt.len
        /\ pkt.len < ETH_HLEN + IP_HLEN_MIN => pkt.data_end = pkt.len
        /\ pkt.len > 60 => pkt.data_end = 60
        \* a field the classifier does not come to look at is held fixed
        /\ pkt.len # 60 => /\ pkt.proto = TCP /\ pkt.ethertype = ETH_P_IP
                            /\ pkt.version_ihl = 69
        /\ pkt.data_end < 34 => pkt.proto = TCP
        /\ pkt.ethertype # ETH_P_IP => /\ pkt.proto = TCP /\ pkt.version_ihl = 69
                                        /\ pkt.data_end \in {13, 60}
        /\ pkt.version_ihl = 68 => /\ pkt.proto = TCP
                                    /\ pkt.data_end \in {13, 14, 60}}

\* bpf_ktime_get_ns() as the classifier reads it
ProbeClock == {1}

\* a slip: the size of the value is left out of the check
ptr_at_offset_only(pkt, offset, size) == offset <= pkt.data_end

\* ptr_at::<T>(ctx, offset) with size_of::<T>() = size
ptr_at(pkt, offset, size) == offset + size <= pkt.data_end

ProbeOk(path, emit) == [tag |-> "Ok", ret |-> TC_ACT_OK, path |-> path, emit |-> emit]

ProbeErr(path) == [tag |-> "Err", ret |-> TC_ACT_OK, path |-> path, emit |-> NoneOpt]

\* a slip: one record more than the ring has room for is accepted
CanReserve_one_more(r) == Len(r) <= RingCap

\* EVENTS.reserve::<NetworkFlowEvent>(0) finds room
CanReserve(r) == Len(r) < RingCap

\* a slip: the IHL nibble is scaled by 5, so an IHL of 4 passes for 20 bytes
ip_header_len_by5(version_ihl) == (version_ihl % 16) * 5

\* ((version_ihl & 0x0F) as usize) * 4
ip_header_len(version_ihl) == (version_ihl % 16) * 4

try_network_probe(pkt, dir, timestamp_ns, r) ==
    LET ip_offset == ETH_HLEN
        hlen == ip_header_len(pkt.version_ihl)
        transport_offset == ip_offset + hlen
        has_ports == pkt.proto \in {TCP, UDP}
        event == [timestamp_ns |-> timestamp_ns, cgroup_id |-> 0,
                  src_ip |-> pkt.src_ip, dst_ip |-> pkt.dst_ip,
                  src_port |-> IF has_ports THEN pkt.sport ELSE 0,
                  dst_port |-> IF has_ports THEN pkt.dport ELSE 0,
                  protocol |-> pkt.proto, direction |-> dir,
                  packet_len |-> pkt.len % 65536]
    IN  IF pkt.len < ETH_HLEN + IP_HLEN_MIN THEN ProbeOk("short", NoneOpt)
        ELSE IF ~ptr_at(pkt, 12, 2) THEN ProbeErr("ethertype")
        ELSE IF pkt.ethertype # ETH_P_IP THEN ProbeOk("not_ipv4", NoneOpt)
        ELSE IF ~ptr_at(pkt, ip_offset, 1) THEN ProbeErr("version_ihl")
        ELSE IF hlen < IP_HLEN_MIN THEN ProbeOk("bad_ihl", NoneOpt)
        ELSE IF ~ptr_at(pkt, ip_offset + 9, 1) THEN ProbeErr("proto")
        ELSE IF ~ptr_at(pkt, ip_offset + 12, 4) THEN ProbeErr("src_ip")
        ELSE IF ~ptr_at(pkt, ip_offset + 16, 4) THEN ProbeErr("dst_ip")
        ELSE IF has_ports /\ ~ptr_at(pkt, transport_offset, 2) THEN ProbeErr("sport")
        ELSE IF has_ports /\ ~ptr_at(pkt, transport_offset + 2, 2)
             THEN ProbeErr("dport")
        ELSE IF ~CanReserve(r) THEN ProbeOk("ring_full", NoneOpt)
        ELSE ProbeOk("emitted", Some(event))

\* the values try_network_probe goes on to read, as <<offset, size>>, in the
\* order of the code and with its early returns
ReadPlan(pkt) ==
    LET hlen == ip_header_len(pkt.version_ihl)
    IN  IF pkt.len < ETH_HLEN + IP_HLEN_MIN THEN <<>>
        ELSE <<<<12, 2>>>> \o
             (IF pkt.ethertype # ETH_P_IP THEN <<>>
              ELSE <<<<ETH_HLEN, 1>>>> \o
                   (IF hlen < IP_HLEN_MIN THEN <<>>
                    ELSE <<<<ETH_HLEN + 9, 1>>, <<ETH_HLEN + 12, 4>>,
                           <<ETH_HLEN + 16, 4>>>> \o
                         (IF pkt.proto \in {TCP, UDP}
                          THEN <<<<ETH_HLEN + hlen, 2>>, <<ETH_HLEN + hlen + 2, 2>>>>
                          ELSE <<>>)))

\* the reads done: each one follows an Ok of ptr_at, the first Err returns
RECURSIVE ReadsDone(_, _)
ReadsDone(pkt, plan) ==
    IF plan = <<>> THEN {}
    ELSE IF ~ptr_at(pkt, Head(plan)[1], Head(plan)[2]) THEN {}
    ELSE {Head(plan)} \cup ReadsDone(pkt, Tail(plan))

\* a slip: a failed bounds check drops the packet (TC_ACT_SHOT is 2)
ClassifierVerdict_shot(res) == IF res.tag = "Ok" THEN res.ret ELSE 2

\* the match in network_probe and network_probe_egress
ClassifierVerdict(res) == IF res.tag = "Ok" THEN res.ret ELSE TC_ACT_OK

Classify(pkt, dir, timestamp_ns) ==
    LET res == try_network_probe(pkt, dir, timestamp_ns, ring)
    IN  /\ ring' = IF res.emit = NoneOpt THEN ring
                   ELSE Append(ring, [size |-> EVENT_SIZE,
                                      event |-> Unwrap(res.emit)])
        /\ verdict' = [ret |-> ClassifierVerdict(res), path |-> res.path,
                       dir |-> dir, len |-> pkt.len,
                       ethertype |-> pkt.ethertype,
                       version_ihl |-> pkt.version_ihl,
                       full |-> Len(ring) >= RingCap,
                       same |-> ring' = ring,
                       packet_len |-> IF res.emit = NoneOpt THEN 0
                                      ELSE Unwrap(res.emit).packet_len,
                       proto |-> pkt.proto, data_end |-> pkt.data_end,
                       reads |-> ReadsDone(pkt, ReadPlan(pkt))]
        /\ UNCHANGED <<aggVars, cacheVars, watchVars, now, loopVars, pureVars>>

\* the ingress entry point
network_probe ==
    \E pkt \in Packets, timestamp_ns \in ProbeClock :
        Classify(pkt, INGRESS, timestamp_ns)

\* the egress entry point
network_probe_egress ==
    \E pkt \in Packets, timestamp_ns \in ProbeClock :
        Classify(pkt, EGRESS, timestamp_ns)

\* MAX_BATCH_SIZE in the scale of the model's ring: the ring of 1 MiB holds
\* many more records than one batch, here it holds one more
BatchCap == RingCap - 1

\* poll_events: ring_buf.next() takes a record out of the ring, then the limit
\* is looked at; `events` are returned, `rest` stays in the ring
RECURSIVE poll_events(_, _)
poll_events(r, events) ==
    IF r = <<>> THEN [events |-> events, rest |-> r]
    ELSE IF Len(events) >= BatchCap
         THEN [events |-> events, rest |-> Tail(r)]
    ELSE IF Head(r).size = EVENT_SIZE
         THEN poll_events(Tail(r), Append(events, Head(r).event))
    ELSE poll_events(Tail(r), events)

\* the poller's tick takes the records out of the ring
PollRing ==
    /\ ring # <<>>
    /\ ring' = poll_events(ring, <<>>).rest
    /\ UNCHANGED <<verdict, aggVars, cacheVars, watchVars, now, loopVars,
                   pureVars>>

NextProbe ==
    \/ network_probe
    \/ network_probe_egress
    \/ PollRing

----------------------------------------------------------------------------
(* The agent's main task (orb8-agent/src/main.rs): startup, loop, shutdown *)

NoSignal == [raised |-> FALSE, pending |-> FALSE, notified |-> FALSE]

NoPoll == [taken |-> 0, returned |-> 0, malformed |-> 0, total |-> 0, bad |-> 0]

\* the events of the records the classifier leaves in the ring
LoopEvents ==
    {event \in Events : /\ event.timestamp_ns = 1 /\ event.direction = INGRESS
                        /\ event.packet_len = 60 /\ event.src_port = 80}

\* what ring_buf.next() can hand out: records of size_of::<NetworkFlowEvent>()
\* bytes and a record of another length, which poll_events tells apart
LoopRecords ==
    {[size |-> EVENT_SIZE, event |-> event] : event \in LoopEvents}
        \cup {[size |-> EVENT_SIZE \div 2, event |-> CHOOSE event \in LoopEvents : TRUE]}

\* the number of records of r that are not EVENT_SIZE bytes long
RECURSIVE Malformed(_)
Malformed(r) ==
    IF r = <<>> THEN 0
    ELSE (IF Head(r).size = EVENT_SIZE THEN 0 ELSE 1) + Malformed(Tail(r))

\* the agent's probes are attached and its main task has not returned
Running == lpc \in {"select", "batch"}

\* grpc_server::start_server: the server future is built and spawned, the
\* sender is returned; the listener is bound when the spawned task first polls
\* the future, and an error of it is logged there
start_server ==
    /\ lpc = "start"
    /\ \E bound \in BOOLEAN :
           rpc' = IF bound THEN "serving" ELSE "bind_failed"
    /\ lpc' = "probes"
    /\ UNCHANGED <<aggVars, cacheVars, watchVars, now, ring, verdict, pureVars, batch,
                   sig, polled>>

\* ProbeManager::new()?, attach_to_interfaces(..)?, events_ring_buf()?: an
\* error of any of them is returned from main, which exits with code 1
LoadProbes ==
    /\ lpc = "probes"
    /\ \E loaded \in BOOLEAN : lpc' = IF loaded THEN "select" ELSE "failed"
    /\ UNCHANGED <<aggVars, cacheVars, watchVars, now, ring, verdict, pureVars, rpc,
                   batch, sig, polled>>

\* the kernel side leaves a record in the ring
RingSubmit ==
    /\ Running
    /\ CanReserve(ring)
    /\ polled.total + Len(ring) < MaxEvents
    /\ \E rec \in LoopRecords : ring' = Append(ring, rec)
    /\ UNCHANGED <<aggVars, cacheVars, watchVars, now, verdict, pureVars,
                   loopVars>>

\* SIGINT reaches the process while the main task is in its loop: the
\* runtime's handler marks it pending
Interrupt ==
    /\ Running
    /\ ~sig.raised
    /\ sig' = [sig EXCEPT !.raised = TRUE, !.pending = TRUE]
    /\ UNCHANGED <<aggVars, cacheVars, watchVars, now, ring, verdict, pureVars, lpc,
                   rpc, batch, polled>>

\* the runtime's signal driver, on any worker thread, hands a pending signal
\* to the listeners there are: the ctrl_c() future of a select! that is
\* waiting, none while the sleep branch runs its body
SignalDriver ==
    /\ sig.pending
    /\ sig' = [sig EXCEPT !.pending = FALSE, !.notified = (lpc = "select")]
    /\ UNCHANGED <<aggVars, cacheVars, watchVars, now, ring, verdict, pureVars, lpc,
                   rpc, batch, polled>>

\* the ctrl_c branch of select!: break, manager.unload(), Ok(())
SelectCtrlC ==
    /\ lpc = "select"
    /\ sig.notified
    /\ lpc' = "stopped"
    /\ UNCHANGED <<aggVars, cacheVars, watchVars, now, ring, verdict, pureVars, rpc,
                   batch, sig, polled>>

\* the sleep branch of select! up to the head of the for loop: the ctrl_c()
\* future of this select! is dropped, poll_events drains the ring
SelectSleep ==
    /\ lpc = "select"
    /\ LET res == poll_events(ring, <<>>)
           taken == Len(ring) - Len(res.rest)
           malformed == Malformed(SubSeq(ring, 1, taken))
       IN  /\ ring' = res.rest
           /\ batch' = res.events
           /\ polled' = [taken |-> taken, returned |-> Len(res.events),
                         malformed |-> malformed,
                         total |-> polled.total + taken,
                         bad |-> polled.bad + malformed]
           /\ lpc' = IF res.events = <<>> THEN "select" ELSE "batch"
    /\ sig' = [sig EXCEPT !.notified = FALSE]
    /\ UNCHANGED <<aggVars, cacheVars, watchVars, now, verdict, pureVars, rpc>>

\* one iteration of `for event in events`
LoopIter ==
    /\ lpc = "batch"
    /\ LoopBody(Head(batch))
    /\ batch' = Tail(batch)
    /\ lpc' = IF Tail(batch) = <<>> THEN "select" ELSE "batch"
    /\ UNCHANGED <<expVars, rpcVars, cacheVars, watchVars, now, ring, verdict, pureVars,
                   rpc, sig, polled>>

NextAgent ==
    \/ start_server
    \/ LoadProbes
    \/ RingSubmit
    \/ Interrupt
    \/ SignalDriver
    \/ SelectCtrlC
    \/ SelectSleep
    \/ LoopIter

----------------------------------------------------------------------------
(* RPC surface (orb8-agent/src/grpc_server.rs) *)

DEFAULT_LIMIT == 1000

\* the broadcast channel keeps this many values; the model's channel holds two
\* fewer than the loop can broadcast, so a receiver can lag and events follow
ChanCap == MaxEvents - 2

NoReply == [asked |-> FALSE]

\* QueryFlowsRequest values
Requests ==
    [namespaces : {{}, {"a"}, {"unknown"}},
     pod_names : {{}, {"web"}, {"cgroup-0", "web"}},
     limit : {0, 1, 2}]

\* the NetworkFlow built from a (FlowKey, FlowStats) pair
NetworkFlowOf(key) ==
    [namespace |-> key.namespace, pod_name |-> key.pod_name,
     src_ip |-> format_ipv4(key.src_ip), dst_ip |-> format_ipv4(key.dst_ip),
     src_port |-> key.src_port, dst_port |-> key.dst_port,
     protocol |-> format_protocol(key.protocol),
     direction |-> format_direction(key.direction),
     bytes |-> flows[key].bytes, packets |-> flows[key].packets,
     first_seen_ns |-> flows[key].first_seen_ns,
     last_seen_ns |-> flows[key].last_seen_ns]

\* a slip: the comparison is the wrong way round, a before b
BytesBefore_ascending(a, b) == a.bytes <= b.bytes

\* sort_by(|a, b| b.bytes.cmp(&a.bytes)): a stays before b
BytesBefore(a, b) == a.bytes >= b.bytes

\* x put behind the last element it may not pass (the sort is stable)
RECURSIVE InsertSorted(_, _)
InsertSorted(sorted, x) ==
    IF sorted = <<>> THEN <<x>>
    ELSE IF BytesBefore(sorted[Len(sorted)], x) THEN Append(sorted, x)
    ELSE Append(InsertSorted(SubSeq(sorted, 1, Len(sorted) - 1), x),
                sorted[Len(sorted)])

RECURSIVE sort_by_bytes(_)
sort_by_bytes(v) ==
    IF v = <<>> THEN <<>>
    ELSE InsertSorted(sort_by_bytes(SubSeq(v, 1, Len(v) - 1)), v[Len(v)])

\* Vec::truncate(len)
truncate(v, len) == SubSeq(v, 1, Min2(len, Len(v)))

\* the keys query_flows keeps: get_flows, then the pod-name filter
QuerySelect(req) ==
    {key \in get_flows(req.namespaces) :
        req.pod_names = {} \/ key.pod_name \in req.pod_names}

\* query_flows: the map is iterated in the order DashMap happens to give
query_flows(req) ==
    /\ \E order \in Orders(QuerySelect(req)) :
          LET limit == IF req.limit = 0 THEN DEFAULT_LIMIT ELSE req.limit
              v == [i \in 1..Len(order) |-> NetworkFlowOf(order[i])]
          IN  reply' = [asked |-> TRUE, req |-> req,
                        flows |-> truncate(sort_by_bytes(v), limit),
                        at |-> events_processed]
    /\ UNCHANGED <<flows, events_processed, events_dropped, folded, last,
                   expVars, sent, sub, cacheVars, now, watchVars, probeVars>>

\* the records aggregated before a query: cgroup ids 0 and 11, both directions
QueryEvents == {event \in AttrEvents : ~IsSelfTraffic(event)}

\* the event loop beside the RPC handlers; a reply is history once flows change
QueryPollerStep ==
    /\ \E event \in QueryEvents : LoopBody(event)
    /\ reply' = NoReply
    /\ UNCHANGED <<sub, cacheVars, now, watchVars, probeVars, expVars>>

\* the pod whose container has cgroup id 11
QueryPods == {pod \in PodObjs : pod.name = "web"}

NextQuery ==
    \/ QueryPollerStep
    \/ \E pod \in QueryPods : WatchApply(pod)
    \/ \E req \in Requests : query_flows(req)

NoSub ==
    [open |-> FALSE, namespaces |-> {}, start |-> 0, next |-> 0,
     delivered |-> <<>>, lagged |-> FALSE, lag_tail |-> 0, lag_len |-> 0,
     lost |-> {}, at |-> 0]

\* StreamEventsRequest namespace filters
StreamFilters == {{}, {"a"}, {"b", "external"}}

\* self.event_tx.subscribe(): the receiver sees what is sent from now on
stream_events(namespaces) ==
    /\ ~sub.open
    /\ sub' = [open |-> TRUE, namespaces |-> namespaces, start |-> Len(sent),
               next |-> Len(sent), delivered |-> <<>>, lagged |-> FALSE,
               lag_tail |-> 0, lag_len |-> 0, lost |-> {},
               at |-> events_processed]
    /\ UNCHANGED <<flows, events_processed, events_dropped, folded, last,
                   expVars, sent, reply, cacheVars, now, watchVars, probeVars>>

\* a slip: the receiver is never found lagging
Lagging_never(next, tail) == FALSE

\* the receiver's next value has been overwritten
Lagging(next, tail) == tail - next > ChanCap

\* a slip: every event passes
StreamFilter_all(namespaces, event) == TRUE

\* namespaces.is_empty() || namespaces.contains(&event.namespace)
StreamFilter(namespaces, event) ==
    namespaces = {} \/ event.namespace \in namespaces

\* the filter_map closure: the index of the event passed on, if any
filter_map_closure(namespaces, result) ==
    IF result.tag = "Ok"
    THEN IF StreamFilter(namespaces, sent[result.i]) THEN Some(result.i)
         ELSE NoneOpt
    ELSE NoneOpt

\* a slip: the stream ends at the first error
StreamContinues_while_ok(result) == result.tag = "Ok"

\* filter_map skips what the closure maps to None; the stream ends only when
\* BroadcastStream does, on Closed
StreamContinues(result) == result.tag \in {"Ok", "Lagged"}

\* the subscriber's stream is polled once: BroadcastStream's recv, then the
\* closure; the history notes what was delivered and how full the channel was
StreamPoll ==
    /\ sub.open
    /\ sub.next < Len(sent)
    /\ LET tail == Len(sent)
           lag == Lagging(sub.next, tail)
           result == IF lag THEN [tag |-> "Lagged", i |-> 0]
                     ELSE [tag |-> "Ok", i |-> sub.next + 1]
           item == filter_map_closure(sub.namespaces, result)
       IN  sub' = [sub EXCEPT
                     !.open = StreamContinues(result),
                     !.next = IF lag THEN tail - ChanCap ELSE @ + 1,
                     !.delivered = IF item = NoneOpt THEN @
                                   ELSE Append(@, [i |-> Unwrap(item),
                                                   tail |-> tail]),
                     !.lagged = @ \/ lag,
                     !.lag_tail = IF lag THEN tail ELSE @,
                     !.lag_len = IF lag THEN Len(sub.delivered) ELSE @,
                     !.lost = IF lag THEN @ \cup (sub.next + 1..tail - ChanCap)
                              ELSE @]
    /\ UNCHANGED <<flows, events_processed, events_dropped, folded, last,
                   expVars, sent, reply, cacheVars, now, watchVars, probeVars>>

\* the records broadcast to the subscriber: both directions, no cgroup id
BroadcastEvents ==
    {event \in AttrEvents : ~IsSelfTraffic(event) /\ event.cgroup_id = 0}

StreamPollerStep ==
    /\ \E event \in BroadcastEvents : LoopBody(event)
    /\ UNCHANGED <<rpcVars, cacheVars, now, watchVars, probeVars, expVars>>

\* a pod at the source address and a pod at the destination address
StreamPods == {pod \in PodObjs : pod.name \in {"web", "db"}}

NextStream ==
    \/ StreamPollerStep
    \/ \E pod \in StreamPods : WatchApply(pod)
    \/ \E namespaces \in StreamFilters : stream_events(namespaces)
    \/ StreamPoll

----------------------------------------------------------------------------
(* The agent without a Kubernetes API (Spec) and with one (SpecAttr) *)

EmptyMap == [x \in {} |-> {}]

Init ==
    /\ inner = EmptyMap
    /\ by_ip = EmptyMap
    /\ flows = EmptyMap
    /\ events_processed = 0
    /\ events_dropped = 0
    /\ now = 0
    /\ folded = EmptyMap
    /\ last = "none"
    /\ cluster = [live |-> {}, gone |-> {}]
    /\ stream = <<>>
    /\ wpc = "start"
    /\ backoff = 1
    /\ wlast = NoOp
    /\ missed = {}
    /\ ring = <<>>
    /\ verdict = [ret |-> TC_ACT_OK, path |-> "none", dir |-> INGRESS,
                  len |-> 0, ethertype |-> 0, version_ihl |-> 0,
                  full |-> FALSE, same |-> TRUE, packet_len |-> 0,
                  proto |-> 0, data_end |-> 0, reads |-> {}]
    /\ epc = "sleep"
    /\ cutoff = 0
    /\ before = 0
    /\ sweep = NoSweep
    /\ since = "start"
    /\ sent = <<>>
    /\ sub = NoSub
    /\ reply = NoReply
    /\ slept = 0
    /\ lpc = "start"
    /\ rpc = "none"
    /\ batch = <<>>
    /\ sig = NoSignal
    /\ polled = NoPoll
    /\ conv = NoConv
    /\ uidx = NoExtract
    /\ lookup = NoLookup
    /\ procs = NoCallers

Next ==
    \/ PollerStep
    \/ Expire
    \/ Tick

Spec == Init /\ [][Next]_vars

NextAttr ==
    \/ AttrStep
    \/ \E pod \in PodObjs : WatchApply(pod)
    \/ \E pod \in PodObjs : WatchDelete(pod)

SpecAttr == Init /\ [][NextAttr]_vars

SpecWatcher == Init /\ [][NextWatcher]_vars

SpecProbe == Init /\ [][NextProbe]_vars

SpecExpire == Init /\ [][NextExpire]_vars

SpecQuery == Init /\ [][NextQuery]_vars

SpecStream == Init /\ [][NextStream]_vars

SpecAgent == Init /\ [][NextAgent]_vars

SpecIp == Init /\ [][NextIp]_vars

SpecCgroup == Init /\ [][NextCgroup]_vars

SpecCache == Init /\ [][NextCache]_vars

SpecConc == Init /\ [][NextConc]_vars

SpecApply == Init /\ [][NextApply]_vars

\* the runtime polls a task that can go on, and a timer that was set fires;
\* a select! with several branches ready takes each of them in the long run
SpecAgentFair ==
    /\ Init /\ [][NextAgent]_vars
    /\ WF_vars(start_server) /\ WF_vars(LoadProbes)
    /\ WF_vars(SignalDriver) /\ WF_vars(SelectSleep) /\ WF_vars(LoopIter)
    /\ SF_vars(SelectCtrlC)

\* the expiration task is a spawned tokio task whose sleep always elapses:
\* the clock advances and each step of a sweep is eventually taken
SpecExpireFair ==
    /\ Init /\ [][NextExpire]_vars
    /\ WF_vars(Tick) /\ WF_vars(ExpireBegin)
    /\ WF_vars(ExpireRetain) /\ WF_vars(ExpireEnd)

----------------------------------------------------------------------------
(* Flow statistics *)

RECURSIVE SumLen(_)
SumLen(evs) == IF evs = <<>> THEN 0 ELSE Head(evs).packet_len + SumLen(Tail(evs))

TsOf(evs) == {evs[i].timestamp_ns : i \in 1..Len(evs)}

MaxOf(S) == CHOOSE x \in S : \A y \in S : y <= x

MinOf(S) == CHOOSE x \in S : \A y \in S : x <= y

\* C1: the events folded into a flow all map to its key, and the flow's bytes
\* is the sum of their packet_len and its packets their number
C1_BytesAndPackets ==
    \A k \in DOMAIN flows :
        /\ \A i \in 1..Len(folded[k]) : MakeFlowKey(folded[k][i]) = k
        /\ flows[k].bytes = SumLen(folded[k])
        /\ flows[k].packets = Len(folded[k])

\* three events of length 100 on one key: one flow, bytes 300, packets 3
C1_Witness ==
    \E k \in DOMAIN flows :
        /\ DOMAIN flows = {k}
        /\ Len(folded[k]) = 3
        /\ \A i \in 1..3 : folded[k][i].packet_len = 100
        /\ flows[k].bytes = 300
        /\ flows[k].packets = 3

\* C2: a flow's last_seen_ns is the largest timestamp_ns folded into it
C2_LastSeenIsMax ==
    \A k \in DOMAIN flows : flows[k].last_seen_ns = MaxOf(TsOf(folded[k]))

\* C3: a flow's first_seen_ns is the smallest timestamp_ns folded into it
C3_FirstSeenIsMin ==
    \A k \in DOMAIN flows : flows[k].first_seen_ns = MinOf(TsOf(folded[k]))

\* C4: no flow of a snapshot has the RPC listen port as source or destination
C4_NoSelfTraffic ==
    \A k \in get_flows({}) :
        k.src_port # GRPC_PORT /\ k.dst_port # GRPC_PORT

\* a record on the listen port was polled and discarded while flows exist
C4_Witness ==
    /\ last = "filtered"
    /\ DOMAIN flows # {}
    /\ events_processed = Cardinality(DOMAIN flows)

----------------------------------------------------------------------------
(* Pod attribution *)

\* the key process_event is said to use: namespace and pod replaced
KeyWith(event, np) ==
    [MakeFlowKey(event) EXCEPT !.namespace = np[1], !.pod_name = np[2]]

\* process_event folded `event` under key k in this step
FoldedUnder(event, k) ==
    /\ LoopBody(event)
    /\ k \in DOMAIN flows'
    /\ folded'[k][Len(folded'[k])] = event
    /\ flows'[k].packets = IF k \in DOMAIN flows THEN flows[k].packets + 1 ELSE 1

\* C8: with an empty pod cache an event with cgroup id 0 is aggregated under
\* namespace "external", pod "unknown"
C8_FallbackExternal ==
    [][\A event \in AttrEvents :
          (/\ LoopBody(event)
           /\ ~IsSelfTraffic(event)
           /\ event.cgroup_id = 0
           /\ DOMAIN inner = {} /\ DOMAIN by_ip = {})
          => FoldedUnder(event, KeyWith(event, <<"external", "unknown">>))]_vars

\* the order process_event is said to resolve in: cgroup id, pod IP, default
ClaimedPod(event) ==
    IF event.cgroup_id # 0 /\ PodCache_get(event.cgroup_id) # NoneOpt
    THEN NsPod(PodCache_get(event.cgroup_id))
    ELSE Enrich(event)

\* C9: process_event keys the flow by the pod found by cgroup id, else by pod
\* IP on the side the direction names and then the other, else external/unknown
C9_ResolutionOrder ==
    [][\A event \in AttrEvents :
          (LoopBody(event) /\ ~IsSelfTraffic(event))
          => FoldedUnder(event, KeyWith(event, ClaimedPod(event)))]_vars

----------------------------------------------------------------------------
(* Pod cache removal and resync *)

\* the keys of m whose metadata carries pod_uid
Carrying(m, pod_uid) == {c \in DOMAIN m : m[c].pod_uid = pod_uid}

RemovedExactly(pre, m, pod_uid) ==
    /\ DOMAIN m = DOMAIN pre \ Carrying(pre, pod_uid)
    /\ \A c \in DOMAIN m : m[c] = pre[c]
    /\ Cardinality(DOMAIN pre) - Cardinality(DOMAIN m)
           = Cardinality(Carrying(pre, pod_uid))

PodCgroups(pod) ==
    LET css == Unwrap(pod.status).container_statuses
    IN  UNION {resolve(pod.uid, Unwrap(css[i].container_id)) :
                   i \in {j \in 1..Len(css) : css[j].container_id # NoneOpt}}

\* C7: after a resync the cache holds the listed pods, and no pod that was
\* deleted while the watch was down
C7_ResyncConverges ==
    wlast.op = "resync" =>
        /\ \A pod \in wlast.list :
              /\ \A ip \in PodIp(pod) :
                    ip \in DOMAIN by_ip /\ by_ip[ip].pod_uid \in Uids(wlast.list)
              /\ \A c \in PodCgroups(pod) :
                    c \in DOMAIN inner /\ inner[c].pod_uid = pod.uid
        /\ \A uid \in wlast.missed :
              Carrying(inner, uid) = {} /\ Carrying(by_ip, uid) = {}

----------------------------------------------------------------------------
(* Classifier verdict *)

ParsePaths ==
    {"short", "ethertype", "not_ipv4", "version_ihl", "bad_ihl", "proto",
     "src_ip", "dst_ip", "sport", "dport", "ring_full", "emitted"}

\* C10: whatever the parse outcome, both entry points return TC_ACT_OK
C10_AlwaysPass ==
    /\ verdict.ret = TC_ACT_OK
    /\ verdict.path \in ParsePaths \cup {"none"}

\* the egress entry point passed a packet that failed a bounds check while
\* the ring was full
C10_Witness ==
    /\ verdict.dir = EGRESS
    /\ verdict.path = "dport"
    /\ verdict.ret = TC_ACT_OK
    /\ Len(ring) = RingCap

----------------------------------------------------------------------------
(* Emission into the ring *)

\* C11: a classifier call that finds the ring full adds no record, leaves the
\* ring as it was and still returns TC_ACT_OK
C11_RingFullDropsSilently ==
    verdict.full => (verdict.same /\ verdict.ret = TC_ACT_OK)

\* a well-formed packet met a full ring and was passed
C11_Witness ==
    /\ verdict.full
    /\ verdict.path = "ring_full"
    /\ verdict.ret = TC_ACT_OK
    /\ Len(ring) = RingCap

\* C12: a record is emitted only for a packet of at least 34 bytes with
\* EtherType 0x0800 and an IPv4 header length of at least 20
C12_EmitOnlyIpv4 ==
    ~verdict.same =>
        /\ verdict.len >= 34
        /\ verdict.ethertype = 2048
        /\ (verdict.version_ihl % 16) * 4 >= 20

\* a record was emitted
C12_Witness ==
    /\ ~verdict.same
    /\ verdict.path = "emitted"
    /\ ring # <<>>
    /\ ring[Len(ring)].event.packet_len >= ETH_HLEN + IP_HLEN_MIN

----------------------------------------------------------------------------
(* Flow expiry *)

\* a sweep has returned
SweepDone == epc = "sleep" /\ sweep.ret.tag # "none"

\* C13 as amended: a sweep removes a flow exactly when now - last_seen >=
\* flow_timeout; a flow idle for exactly the timeout is removed
C13_ExpireAtTimeout ==
    sweep.ret.tag # "none" =>
        /\ \A i \in sweep.idle_removed : i >= 30
        /\ \A i \in sweep.idle_kept : i < 30

\* a sweep removed a flow idle for exactly 30 s and kept a younger one
C13_Witness ==
    /\ SweepDone
    /\ 30 \in sweep.idle_removed
    /\ sweep.idle_kept # {}

\* C13 as stated: a sweep removes a flow exactly when now - last_seen > 30
\* and keeps a flow idle for exactly 30 s
C13_ExpireAfterTimeout ==
    sweep.ret.tag # "none" =>
        /\ \A i \in sweep.idle_removed : i > 30
        /\ \A i \in sweep.idle_kept : i <= 30

\* C14: whatever process_event calls run beside a sweep, the sweep returns
\* the number of flows it removed, without underflow
C14_ExpireCountExact ==
    /\ epc # "panicked"
    /\ SweepDone => sweep.ret = [tag |-> "ok", n |-> sweep.removed]

----------------------------------------------------------------------------
(* QueryFlows *)

\* the flows a request's two filters select, an empty filter selecting all
Matches(req) ==
    {key \in DOMAIN flows :
        /\ req.namespaces = {} \/ key.namespace \in req.namespaces
        /\ req.pod_names = {} \/ key.pod_name \in req.pod_names}

\* the limit in force: 1000 when the request gives 0
EffectiveLimit(req) == IF req.limit = 0 THEN 1000 ELSE req.limit

Returned == {reply.flows[i] : i \in 1..Len(reply.flows)}

\* C16: the reply is in non-increasing order of bytes, holds at most `limit`
\* flows (1000 for limit 0), and holds the largest of the matching flows
C16_QuerySortedTruncated ==
    reply.asked =>
        /\ \A i \in 1..Len(reply.flows) - 1 :
              reply.flows[i].bytes >= reply.flows[i + 1].bytes
        /\ Len(reply.flows) <= EffectiveLimit(reply.req)
        /\ Len(reply.flows) =
              Min2(EffectiveLimit(reply.req), Cardinality(Matches(reply.req)))
        /\ \A key \in Matches(reply.req) :
              NetworkFlowOf(key) \notin Returned
              => \A r \in Returned : r.bytes >= flows[key].bytes

\* a reply cut to one flow, the larger of matching flows of different sizes
C16_Witness ==
    /\ reply.asked
    /\ reply.req.limit = 1
    /\ Len(reply.flows) = 1
    /\ \E key \in Matches(reply.req) : flows[key].bytes < reply.flows[1].bytes

\* C17: every flow of the reply matches both filters, and short of the limit
\* every matching flow is in the reply
C17_QuerySelectsMatching ==
    reply.asked =>
        /\ \A r \in Returned :
              \E key \in Matches(reply.req) : r = NetworkFlowOf(key)
        /\ Len(reply.flows) < EffectiveLimit(reply.req)
              => \A key \in Matches(reply.req) : NetworkFlowOf(key) \in Returned

\* both filters set: one flow returned, one left out for its namespace and
\* one for its pod name
C17_Witness ==
    /\ reply.asked
    /\ reply.req.limit = 0
    /\ reply.req.namespaces # {}
    /\ reply.req.pod_names # {}
    /\ reply.flows # <<>>
    /\ \E key \in DOMAIN flows : key.namespace \notin reply.req.namespaces
    /\ \E key \in DOMAIN flows :
          /\ key.namespace \in reply.req.namespaces
          /\ key.pod_name \notin reply.req.pod_names

----------------------------------------------------------------------------
(* StreamEvents *)

DeliveredIdx == {sub.delivered[j].i : j \in 1..Len(sub.delivered)}

\* the events the receiver has taken from the channel
Received == (sub.start + 1..sub.next) \ sub.lost

\* C18: with a namespace filter every delivered event's namespace is in it;
\* with none every received event is delivered
C18_StreamFilter ==
    sub.open =>
        /\ sub.namespaces # {}
              => \A i \in DeliveredIdx : sent[i].namespace \in sub.namespaces
        /\ sub.namespaces = {} => DeliveredIdx = Received

\* a filtered subscription delivered one event and dropped another
C18_Witness ==
    /\ sub.open
    /\ sub.namespaces # {}
    /\ DeliveredIdx # {}
    /\ Received \ DeliveredIdx # {}

\* C19: after a lag error the subscription is still open and what it
\* receives from then on is delivered as before
C19_LagSkipped ==
    sub.lagged =>
        /\ sub.open
        /\ \A i \in Received :
              (i > sub.lag_tail /\ (sub.namespaces = {}
                                    \/ sent[i].namespace \in sub.namespaces))
              => i \in DeliveredIdx

\* an event broadcast after the lag error was delivered
C19_Witness ==
    /\ sub.lagged
    /\ sub.open
    /\ \E i \in DeliveredIdx : i > sub.lag_tail

\* C20 as amended: a subscriber that lags stays subscribed; only the events
\* overwritten before it read them are lost, and they are not delivered later
C20_LaggedLosesOnlyMissed ==
    /\ \A j \in 1..Len(sub.delivered) :
          /\ sub.delivered[j].i > sub.delivered[j].tail - ChanCap
          /\ sub.delivered[j].i \notin sub.lost
    /\ sub.lagged => sub.open

\* the subscriber lost an event to the lag and was delivered a later one
C20_Witness ==
    /\ sub.lagged
    /\ sub.lost # {}
    /\ Len(sub.delivered) > sub.lag_len

\* C20 as stated: after a lag error the subscription is over and nothing
\* more is delivered
C20_LaggedIsDropped ==
    sub.lagged =>
        /\ ~sub.open
        /\ Len(sub.delivered) = sub.lag_len

----------------------------------------------------------------------------
(* Broadcast from the event loop *)

\* C21: the send never holds the poller up: with no subscriber nothing is
\* stored, with a subscriber every processed event is sent however far behind
\* the subscriber is, and the loop can always take its next record
C21_SendNeverBlocks ==
    /\ ~sub.open => sent = <<>>
    /\ sub.open => Len(sent) - sub.start = events_processed - sub.at
    /\ events_processed < MaxEvents => ENABLED StreamPollerStep

\* an event was processed with no subscriber, and later ones were sent to a
\* subscriber that had a full channel still to read
C21_Witness ==
    /\ sub.open
    /\ sub.at > 0
    /\ last = "aggregated"
    /\ Len(sent) - sub.next > ChanCap

----------------------------------------------------------------------------
(* Pod watcher run loop *)

\* C22: the watcher's sleeps run 1, 2, 4, 8, 16, 30, 30, ...: each sleep is
\* the backoff, which starts at 1, doubles after a failure up to 30 and is
\* always between 1 and 30
C22_BackoffDoublesCapped ==
    /\ 1 <= backoff /\ backoff <= 30
    /\ slept \in {0, 1, 2, 4, 8, 16, 30}
    /\ backoff = IF slept = 0 THEN 1
                 ELSE IF 2 * slept < 30 THEN 2 * slept ELSE 30

\* the watcher has slept 30 s twice running
C22_Witness ==
    /\ slept = 30
    /\ backoff = 30
    /\ wpc = "sleeping"

\* C23 as amended: between the end of one watch and the start of the next
\* resync_all is called; a failed list call is logged and the watch starts
C23_ResyncCalledBeforeWatch ==
    wpc = "start" => wlast.op \in {"none", "resync", "resync_failed"}

\* after a failed watch and its sleep the listed pods were re-applied
C23_Witness ==
    /\ wpc = "start"
    /\ wlast.op = "resync"
    /\ wlast.list # {}
    /\ slept > 0

\* C23 as stated: between the end of one watch and the start of the next
\* every pod is listed and re-applied
C23_ResyncedBeforeWatch ==
    wpc = "start" => wlast.op \in {"none", "resync"}

----------------------------------------------------------------------------
(* Ring polling, startup and shutdown of the main task *)

\* C24: a record of the ring that is not 32 bytes long is skipped, never
\* aggregated, and counted: events_dropped is the number of such records
\* poll_events has taken
C24_MalformedSkippedAndCounted ==
    /\ events_processed <= polled.total - polled.bad
    /\ events_dropped = polled.bad

\* C25: one call of poll_events takes at most MAX_BATCH_SIZE records out of
\* the ring
C25_PollTakesAtMostBatch == polled.taken <= BatchCap

\* C29: when the RPC port cannot be bound the agent exits with code 1 and
\* never enters its event loop
C29_BindFailureFatal ==
    rpc = "bind_failed" => lpc \in {"probes", "failed"}

\* C30: an interrupt signal that arrives while the agent is in its event
\* loop, a batch being processed or not, leads to the loop being left, the
\* probes unloaded and main returning
C30_InterruptLeadsToExit == sig.raised ~> lpc = "stopped"

----------------------------------------------------------------------------
(* Address strings *)

\* a part written as a number is written: digits only
IsDecimal(p) == p # <<>> /\ \A i \in 1..Len(p) : IsDigit(p[i])

\* four dot-separated decimal octets, each in 0..=255
ValidQuad(ip_str) ==
    /\ Len(ip_str) = 4
    /\ \A i \in 1..4 : IsDecimal(ip_str[i]) /\ Spelled(ip_str[i]) <= 255

\* a valid quad whose octets have no leading zero
Canonical(ip_str) ==
    /\ ValidQuad(ip_str)
    /\ \A i \in 1..4 : Len(ip_str[i]) = 1 \/ ip_str[i][1] # "0"

\* C26 as amended: format_ipv4(parse_ipv4(s)) = s for every dotted quad s
\* whose octets are written without leading zeros
C26_RoundTripCanonical ==
    /\ Canonical(conv.s) => conv.parsed # NoneOpt
    /\ (Canonical(conv.s) /\ conv.text # NoneOpt) => Unwrap(conv.text) = conv.s

\* 192.168.1.100 has been parsed and formatted back
C26_Witness ==
    /\ conv.s = <<<<"1", "9", "2">>, <<"1", "6", "8">>, <<"1">>, <<"1", "0", "0">>>>
    /\ conv.text = Some(conv.s)

\* C26 as stated: format_ipv4(parse_ipv4(s)) = s for every string s of four
\* dot-separated decimal octets in 0..=255
C26_RoundTripValid ==
    /\ ValidQuad(conv.s) => conv.parsed # NoneOpt
    /\ (ValidQuad(conv.s) /\ conv.text # NoneOpt) => Unwrap(conv.text) = conv.s

\* C27: parse_ipv4 of "a.b.c.d" is a + 256*b + 65536*c + 16777216*d, the
\* first octet in the least-significant byte: "10.0.0.5" gives 0x0500000A,
\* "192.168.1.100" gives 0x6401A8C0 and "127.0.0.1" gives 0x0100007F
C27_FirstOctetLsb ==
    /\ ValidQuad(conv.s) =>
           conv.parsed = {Spelled(conv.s[1]) + 256 * Spelled(conv.s[2])
                          + 65536 * Spelled(conv.s[3])
                          + 16777216 * Spelled(conv.s[4])}
    /\ conv.s = <<<<"1", "0">>, <<"0">>, <<"0">>, <<"5">>>>
           => conv.parsed = {83886090}
    /\ conv.s = <<<<"1", "9", "2">>, <<"1", "6", "8">>, <<"1">>, <<"1", "0", "0">>>>
           => conv.parsed = {1677830336}
    /\ conv.s = <<<<"1", "2", "7">>, <<"0">>, <<"0">>, <<"1">>>>
           => conv.parsed = {16777343}

\* 192.168.1.100 has been parsed to 0x6401A8C0
C27_Witness ==
    /\ Len(conv.s) = 4
    /\ conv.s[1] = <<"1", "9", "2">>
    /\ conv.parsed = {1677830336}

\* C28: parse_ipv4 returns None for every string that is not four
\* dot-separated decimal octets in 0..=255
C28_InvalidGivesNone ==
    (conv.s # <<>> /\ ~ValidQuad(conv.s)) => conv.parsed = NoneOpt

----------------------------------------------------------------------------
(* Cgroup paths *)

\* C31: for a pod UID without an underscore and every QoS class the UID read
\* back from the path the resolver builds is the UID itself; 12345-6789 under
\* burstable and 12345 without a QoS class come back as they are
C31_ExtractInvertsBuild ==
    uidx.done =>
        /\ (\A i \in 1..Len(uidx.uid) : uidx.uid[i] # "_")
               => uidx.out = Some(uidx.uid)
        /\ (uidx.uid = UID_12345_6789 /\ uidx.qos = "burstable-")
               => uidx.out = Some(UID_12345_6789)
        /\ (uidx.uid = UID_12345 /\ uidx.qos = "")
               => uidx.out = Some(UID_12345)

\* the UID 12345-6789 has been read back from its burstable path
C31_Witness ==
    /\ uidx.done
    /\ uidx.uid = UID_12345_6789
    /\ uidx.qos = "burstable-"
    /\ uidx.path[6] = KUBEPODS_DASH \o BURSTABLE \o POD
                          \o Replace(UID_12345_6789, "-", "_") \o DOT_SLICE
    /\ uidx.out = Some(UID_12345_6789)

----------------------------------------------------------------------------
(* Pod cache lookups *)

\* the calls of ops that name key
OpsOn(ops, key) == {i \in 1..Len(ops) : ops[i].key = key}

\* what the calls ops leave under key: the metadata of the last insert,
\* unless a remove came after it or there was none
Expected(ops, key) ==
    IF OpsOn(ops, key) = {} THEN NoneOpt
    ELSE LET i == CHOOSE j \in OpsOn(ops, key) : \A k \in OpsOn(ops, key) : k <= j
         IN  IF ops[i].op = "insert" THEN ops[i].meta ELSE NoneOpt

\* C32: a lookup returns the metadata most recently inserted for its key, an
\* insert having overwritten what was there, and none for a key never
\* inserted or removed since
C32_GetReturnsLatest ==
    lookup.asked =>
        lookup.got = Expected(SubSeq(lookup.ops, 1, lookup.at), lookup.key)

\* a key was inserted twice with different metadata and then looked up
C32_Witness ==
    /\ lookup.asked
    /\ lookup.at = 2
    /\ lookup.ops[1].op = "insert" /\ lookup.ops[2].op = "insert"
    /\ lookup.ops[1].key = lookup.key /\ lookup.ops[2].key = lookup.key
    /\ lookup.ops[1].meta # lookup.ops[2].meta
    /\ lookup.got = lookup.ops[2].meta

----------------------------------------------------------------------------
(* Records of the classifier *)

\* C33: the packet_len of every record the classifier emits is the wire
\* length of its packet
C33_PacketLenIsWireLen ==
    verdict.path = "emitted" => verdict.packet_len = verdict.len


\* C35: every read of the classifier at offset o of size n lies below the
\* packet tail, o + n <= data_end having been checked first, and a TCP or
\* UDP packet whose tail comes before the end of the four port bytes gives
\* no record and the verdict pass
C35_ReadsInBounds ==
    /\ \A r \in verdict.reads : r[1] + r[2] <= verdict.data_end
    /\ (/\ verdict.path \notin {"none", "short", "not_ipv4", "bad_ihl"}
        /\ verdict.proto \in {TCP, UDP}
        /\ verdict.data_end < ETH_HLEN + ip_header_len(verdict.version_ihl) + 4)
           => /\ verdict.same
              /\ verdict.packet_len = 0
              /\ verdict.ret = TC_ACT_OK

\* a TCP packet that ends after its source port: the port was read, the
\* packet passed without a record
C35_Witness ==
    /\ verdict.path = "dport"
    /\ verdict.proto = TCP
    /\ <<ETH_HLEN + 20, 2>> \in verdict.reads
    /\ <<ETH_HLEN + 22, 2>> \notin verdict.reads
    /\ verdict.data_end = 36
    /\ verdict.same

----------------------------------------------------------------------------
(* Concurrent aggregation *)

\* the bytes of a flow map, all entries together
RECURSIVE BytesOf(_, _)
BytesOf(m, keys) ==
    IF keys = {} THEN 0
    ELSE LET k == CHOOSE x \in keys : TRUE
         IN  m[k].bytes + BytesOf(m, keys \ {k})

\* C34: however concurrent process_event calls on one flow key interleave
\* with each other and with snapshot reads, no update is lost: the key has
\* one entry, its packets is the number of calls, its bytes the sum of their
\* packet_len, and events_processed is the number of calls
C34_NoLostUpdate ==
    /\ events_processed = procs.calls
    /\ Cardinality(DOMAIN flows) <= 1
    /\ \A k \in DOMAIN flows : flows[k].packets = procs.done
    /\ (procs.calls > 0 /\ \A t \in Callers : procs.pc[t] = "idle") =>
           /\ Cardinality(DOMAIN flows) = 1
           /\ \A k \in DOMAIN flows : /\ flows[k].packets = procs.calls
                                      /\ flows[k].bytes = procs.sum
    /\ procs.snap # NoneOpt =>
           \A k \in DOMAIN Unwrap(procs.snap).flows :
               Unwrap(procs.snap).flows[k].packets = Unwrap(procs.snap).done

\* two calls were in flight at once, a snapshot was read in between, and all
\* three calls have returned
C34_Witness ==
    /\ procs.calls = 3
    /\ procs.overlap
    /\ \A t \in Callers : procs.pc[t] = "idle"
    /\ procs.snap # NoneOpt
    /\ Unwrap(procs.snap).done = 1
    /\ \E k \in DOMAIN flows : flows[k].packets = 3 /\ flows[k].bytes = procs.sum
    /\ procs.sum > 200

----------------------------------------------------------------------------
(* Pod apply *)

\* the containers of pod that have a container id and a cgroup
Resolved(pod) ==
    LET css == Unwrap(pod.status).container_statuses
    IN  {i \in 1..Len(css) :
            /\ css[i].container_id # NoneOpt
            /\ resolve(pod.uid, Unwrap(css[i].container_id)) # NoneOpt}

\* the cgroup map after an apply: an entry of the pod under the cgroup id of
\* each such container, every other entry as it was
CgroupMapApplied(pod) ==
    LET css == Unwrap(pod.status).container_statuses
        ids == {Unwrap(resolve(pod.uid, Unwrap(css[i].container_id))) :
                   i \in Resolved(pod)}
    IN  /\ DOMAIN inner = DOMAIN wlast.pre_inner \cup ids
        /\ \A c \in DOMAIN inner \ ids : inner[c] = wlast.pre_inner[c]
        /\ \A c \in ids :
               /\ inner[c].pod_uid = pod.uid
               /\ \E i \in Resolved(pod) : inner[c].container_name = css[i].name

\* the pod-IP map holds the pod
InIpMap(pod) ==
    \E ip \in DOMAIN by_ip :
        /\ by_ip[ip].pod_uid = pod.uid
        /\ by_ip[ip].pod_name = pod.name
        /\ by_ip[ip].namespace = pod.namespace

\* C36 as amended: an applied pod whose pod IP parses as an IPv4 dotted quad
\* is in the pod-IP map, with or without container ids or cgroups; a pod
\* whose address does not parse leaves the pod-IP map as it was; the cgroup
\* map gets an entry for exactly the containers that have an id and a
\* cgroup; a pod without UID or status changes neither map
C36_ApplyInsertsParsedIp ==
    (wlast.op = "apply" /\ "pod" \in DOMAIN wlast) =>
        LET pod == wlast.pod
        IN  IF pod.uid = <<>> \/ pod.status = NoneOpt
            THEN inner = wlast.pre_inner /\ by_ip = wlast.pre_by_ip
            ELSE /\ CgroupMapApplied(pod)
                 /\ IF Unwrap(pod.status).pod_ip # NoneOpt
                       /\ parse_ipv4(Unwrap(Unwrap(pod.status).pod_ip)) # NoneOpt
                    THEN InIpMap(pod)
                    ELSE by_ip = wlast.pre_by_ip

\* a pod with an address and a container without id was applied to an empty
\* cache: it is in the pod-IP map and the cgroup map is empty
C36_Witness ==
    /\ wlast.op = "apply" /\ "pod" \in DOMAIN wlast
    /\ wlast.pod.name = "db"
    /\ wlast.pre_by_ip = EmptyMap
    /\ InIpMap(wlast.pod)
    /\ DOMAIN inner = {}

\* C36 as stated: an applied pod that carries a pod IP is in the pod-IP map
C36_ApplyInsertsAnyIp ==
    (wlast.op = "apply" /\ "pod" \in DOMAIN wlast) =>
        LET pod == wlast.pod
        IN  IF pod.uid = <<>> \/ pod.status = NoneOpt
            THEN inner = wlast.pre_inner /\ by_ip = wlast.pre_by_ip
            ELSE /\ CgroupMapApplied(pod)
                 /\ Unwrap(pod.status).pod_ip # NoneOpt => InIpMap(pod)

----------------------------------------------------------------------------
(* Reconnects of the watcher *)

\* C37: the watcher starts a watch after the end of an earlier one, by error
\* or by a normal end of the stream, only after it has slept for at least 1 s
C37_SleepBeforeReconnect ==
    (wpc = "start" /\ wlast.op \in {"resync", "resync_failed"}) => slept >= 1

----------------------------------------------------------------------------
(* Pod attribution of the stream and of the flow table *)

\* C38: the namespace and pod name of the event broadcast for a packet are
\* those of the flow key process_event aggregated the packet under
C38_StreamMatchesFlowKey ==
    (sub.open /\ sub.at < events_processed /\ sent # <<>>) =>
        \E k \in DOMAIN flows :
            /\ k.namespace = sent[Len(sent)].namespace
            /\ k.pod_name = sent[Len(sent)].pod_name
            /\ k.src_port = sent[Len(sent)].src_port
            /\ k.dst_port = sent[Len(sent)].dst_port

----------------------------------------------------------------------------
(* Records at the batch cap *)

\* C39: every well-formed record a call of poll_events takes out of the ring
\* is in the vector it returns; no record is taken and then discarded when
\* the cap is reached
C39_TakenIsReturned == polled.taken = polled.returned + polled.malformed

----------------------------------------------------------------------------
(* Idle flows leave the flow table *)

\* the flows that have been idle for longer than flow_timeout
IdleFlows ==
    {k \in DOMAIN flows : now - flows[k].last_seen > FLOW_TIMEOUT_SECS}

\* C40: under fair scheduling of the expirer, a flow idle for longer than
\* flow_timeout is eventually removed from the flow table
C40_IdleFlowsExpire == (IdleFlows # {}) ~> (IdleFlows = {})

====
